---- MODULE Spec2Model ----
(***************************************************************************)
(* A model of the ODT-to-XML exam converter: the marker-driven grouping    *)
(* state machine (CaseStudyContentGrouper), the image classifier           *)
(* (identify_image_types), the validator (validate_question_images), the   *)
(* builder dispatch (process_questions), the assembler                     *)
(* (generate_xml_output) and the Streamlit script (app.main).              *)
(*                                                                         *)
(* Text is modelled as a sequence of tokens.  A token is a record          *)
(* [m |-> the raw characters of a marker or word, arg |-> the digits (or   *)
(* answer letters, A = 1) that directly follow it].  "X in text" of the    *)
(* source is "some token of the text has m = X"; a question's accumulated  *)
(* text (joined with "\n" in the source) is the sequence of its lines.     *)
(***************************************************************************)
EXTENDS Integers, Sequences, FiniteSets, TLC

VARIABLES
    grouper,        \* the CaseStudyContentGrouper object (with its CaseStudyState)
    pos,            \* number of content items consumed by process_content_items
    item,           \* the content item handled by the last step
    handled,        \* which branch of _process_single_item handled it
    phase,          \* position of the run: "grouping", "grouped", "generated"
    xml_output,     \* outcome of generate_xml_output
    cl_items,       \* identify_image_types: the content_items scanned so far
    cl_i,           \* identify_image_types: items scanned so far
    current_type,   \* identify_image_types: current_type
    image_types,    \* identify_image_types: image_types (path -> role)
    vq_questions,   \* validate_question_images: the questions visited so far
    all_valid,      \* validate_question_images: all_valid
    error_messages, \* validate_question_images: error_messages
    pq_questions,   \* process_questions: the questions visited so far
    pq_fails,       \* process_questions: the positions whose build raised
    pq_results,     \* process_questions: results
    session,        \* app: st.session_state
    run,            \* app: number of script runs so far
    last_run,       \* app: what the last script run did
    failed_runs,    \* app: the script runs whose validation failed
    api_call,       \* vision service: the call in progress
    api_log,        \* vision service: the calls that have ended, in order
    dd_build,       \* Dropdown builder: the build of one question
    hs_answers,     \* Hotspot builder: the options and the last Answer emitted
    tb_results,     \* text-based builder: the results of the questions built
    par_batch       \* a batch of questions built in any order

grouperVars == <<grouper, pos, item, handled, phase, xml_output>>
classifierVars == <<cl_items, cl_i, current_type, image_types>>
validatorVars == <<vq_questions, all_valid, error_messages>>
dispatchVars == <<pq_questions, pq_fails, pq_results>>
appVars == <<session, run, last_run, failed_runs>>
retryVars == <<api_call, api_log>>
dropdownVars == <<dd_build>>
hotspotVars == <<hs_answers>>
textBasedVars == <<tb_results>>
parallelVars == <<par_batch>>
buildVars == <<retryVars, dropdownVars, hotspotVars, textBasedVars, parallelVars>>
pipelineVars == <<grouperVars, classifierVars, validatorVars, dispatchVars, appVars>>

(***************************************************************************)
(* Bounds of the model.                                                    *)
(***************************************************************************)
MaxItems == 4
MaxClItems == 3
MaxVqQuestions == 2
MaxPqQuestions == 3
MaxRuns == 4
MaxCalls == 2
MaxDdImages == 2
MaxStmtLen == 5
MaxHsAnswers == 2
MaxTbQuestions == 2
MaxParQuestions == 2
MaxCsItems == 6
MaxPrItems == 4
MaxCtItems == 6
MaxSgItems == 7
MaxTcItems == 4
MaxUnItems == 4

(***************************************************************************)
(* Generic helpers.                                                        *)
(***************************************************************************)
None == "None"

Tok(m) == [m |-> m, arg |-> <<>>]
TokA(m, a) == [m |-> m, arg |-> a]

Range(s) == {s[i] : i \in 1..Len(s)}

RECURSIVE Flatten(_)
Flatten(ss) == IF ss = <<>> THEN <<>> ELSE Head(ss) \o Flatten(Tail(ss))

RECURSIVE SelectSeqIdx(_, _, _)
\* the subsequence of s at the indices in keep, in order, starting from index i
SelectSeqIdx(s, keep, i) ==
    IF i > Len(s) THEN <<>>
    ELSE (IF i \in keep THEN <<s[i]>> ELSE <<>>) \o SelectSeqIdx(s, keep, i + 1)

\* str.upper() on the vocabulary of the model (identity on everything else)
Upper(m) ==
    CASE m = "question no:" -> "QUESTION NO:"
      [] m = "Question No:" -> "QUESTION NO:"
      [] m = "hotspot" -> "HOTSPOT"
      [] m = "Hotspot" -> "HOTSPOT"
      [] m = "hot spot" -> "HOT SPOT"
      [] m = "DragDrop" -> "DRAGDROP"
      [] m = "Dropdown" -> "DROPDOWN"
      [] m = "drop down" -> "DROP DOWN"
      [] m = "drag" -> "DRAG"
      [] m = "drop" -> "DROP"
      [] m = "PositionedDropdown" -> "POSITIONEDDROPDOWN"
      [] m = "PositionedDragDrop" -> "POSITIONEDDRAGDROP"
      [] m = "FillInTheBlank" -> "FILLINTHEBLANK"
      [] m = "Simulation" -> "SIMULATION"
      [] m = "MultipleChoice" -> "MULTIPLECHOICE"
      [] m = "SingleChoice" -> "SINGLECHOICE"
      [] m = "RadioButton" -> "RADIOBUTTON"
      [] m = "Answer:" -> "ANSWER:"
      [] m = "Explanation:" -> "EXPLANATION:"
      [] m = "Choices" -> "CHOICES"
      [] OTHER -> m

\* "marker in text" for one paragraph: a case-sensitive substring test
Has(marker, text) == \E i \in 1..Len(text) : text[i].m = marker

\* "marker in text.upper()"
HasUpper(marker, text) == \E i \in 1..Len(text) : Upper(text[i].m) = marker

\* text.split(marker, 1)[1].strip(): what follows the first occurrence
After(marker, text) ==
    LET i == CHOOSE k \in 1..Len(text) :
                 text[k].m = marker /\ \A j \in 1..(k - 1) : text[j].m # marker
    IN SubSeq(text, i + 1, Len(text))

(***************************************************************************)
(* utils/text_helpers.py                                                   *)
(***************************************************************************)
\* positions where re 'QUESTION NO:\s*(\d+)' (IGNORECASE) matches
QuestionNoMatches(text) ==
    {i \in 1..Len(text) : Upper(text[i].m) = "QUESTION NO:" /\ text[i].arg # <<>>}

\* A question number is a digit string; None is modelled by NoNumber (the
\* regex \d+ never yields the empty string, so the empty sequence is free).
NoNumber == <<>>

get_question_number(text) ==
    IF QuestionNoMatches(text) # {}
    THEN text[CHOOSE i \in QuestionNoMatches(text) :
                  \A j \in QuestionNoMatches(text) : i <= j].arg
    ELSE NoNumber

DeclaredTypes ==
    {"HOTSPOT", "DRAGDROP", "DROPDOWN", "RADIOBUTTON", "MULTIPLECHOICE",
     "SIMULATION", "POSITIONEDDROPDOWN"}

\* the word matched by 'QUESTION NO:\s*\d+\s*(\w+)', upper-cased, or None
DeclaredType(text) ==
    LET ms == {i \in QuestionNoMatches(text) : i < Len(text) /\ text[i + 1].arg = <<>>
                                                /\ text[i + 1].m # ""}
    IN IF ms = {} THEN None
       ELSE Upper(text[(CHOOSE i \in ms : \A j \in ms : i <= j) + 1].m)

\* re.findall(r'^[A-Z]\.\s+', text, re.MULTILINE): an option letter opens a line
IsOptionLine(line) == line # <<>> /\ line[1].m \in {"A.", "B."}

\* re.search(r'Answer:\s*([A-Z](?:,\s*[A-Z])*)', text): the letters of the
\* first "Answer:" that is followed by a letter; <<>> when there is none
AnswerLetters(text) ==
    LET ms == {i \in 1..Len(text) : text[i].m = "Answer:" /\ text[i].arg # <<>>}
    IN IF ms = {} THEN <<>>
       ELSE text[CHOOSE i \in ms : \A j \in ms : i <= j].arg

get_question_type(text) ==
    IF HasUpper("POSITIONEDDRAGDROP", text) THEN "POSITIONEDDRAGDROP"
    ELSE IF HasUpper("POSITIONEDDROPDOWN", text) THEN "POSITIONEDDROPDOWN"
    ELSE IF HasUpper("FILLINTHEBLANK", text) \/ Has("___", text) THEN "FILLINTHEBLANK"
    ELSE IF HasUpper("SIMULATION", text) THEN "SIMULATION"
    ELSE IF DeclaredType(text) \in DeclaredTypes THEN DeclaredType(text)
    ELSE IF HasUpper("HOT SPOT", text) \/ HasUpper("HOTSPOT", text) THEN "HOTSPOT"
    ELSE IF \E i, j \in 1..Len(text) :
                i < j /\ Upper(text[i].m) = "DRAG" /\ Upper(text[j].m) = "DROP"
         THEN "DRAGDROP"
    ELSE IF HasUpper("DROP DOWN", text) \/ HasUpper("DROPDOWN", text) THEN "DROPDOWN"
    ELSE IF IsOptionLine(text) /\ AnswerLetters(text) # <<>>
         THEN (IF Len(AnswerLetters(text)) > 1 THEN "MultipleChoice" ELSE "SingleChoice")
    ELSE "SingleChoice"

\* extract_options_from_text(text, q_type)[2]: the updated question type.
\* lines is the question's text, one element per "\n"-separated line.
extract_options_from_text_type(lines, q_type) ==
    IF q_type \in {"SingleChoice", "MultipleChoice"}
       /\ Len(AnswerLetters(Flatten(lines))) > 1
    THEN "MultipleChoice"
    ELSE q_type

(***************************************************************************)
(* core/content_processor_base.py: ContentItem and BaseContentGrouper      *)
(***************************************************************************)
\* ContentItem(content_type, content, frame_refs, images); idx is the item's
\* position in the extracted sequence (the identity of the object)
ContentItem(content, images, idx) ==
    [content |-> content, images |-> images, idx |-> idx]

\* mutant: the marker is looked for in the text as it is written
Mut_has_question_start_case_sensitive(it) == Has("QUESTION NO:", it.content)

\* "QUESTION NO:" in self.content.upper()
has_question_start(it) == HasUpper("QUESTION NO:", it.content)

_create_question_from_item(it) ==
    [number |-> get_question_number(it.content),
     type |-> get_question_type(it.content),
     content_items |-> <<it>>,
     text |-> <<it.content>>,
     images |-> it.images]

\* self.current_question = None; a real question has at least one content item
NoQuestion ==
    [number |-> <<>>, type |-> "", content_items |-> <<>>, text |-> <<>>,
     images |-> <<>>]

\* mutant: the item is put in front of the items of the question
Mut_add_item_prepend(g, it) ==
    IF g.current_question # NoQuestion
    THEN [g EXCEPT !.current_question =
             [@ EXCEPT !.content_items = <<it>> \o @,
                       !.text = <<it.content>> \o @,
                       !.images = it.images \o @]]
    ELSE g

\* mutant: the images of the item are not added to the question
Mut_add_item_without_images(g, it) ==
    IF g.current_question # NoQuestion
    THEN [g EXCEPT !.current_question =
             [@ EXCEPT !.content_items = Append(@, it),
                       !.text = Append(@, it.content)]]
    ELSE g

_add_item_to_current_question(g, it) ==
    IF g.current_question # NoQuestion
    THEN [g EXCEPT !.current_question =
             [@ EXCEPT !.content_items = Append(@, it),
                       !.text = Append(@, it.content),
                       !.images = @ \o it.images]]
    ELSE g

(***************************************************************************)
(* core/case_study_processor.py: CaseStudyState                            *)
(***************************************************************************)
\* self.current_case_study = None; a real case study has id >= 1 (the id
\* stands for the identity of the dict object start_case_study creates)
NoCaseStudy ==
    [id |-> 0, topic_number |-> <<>>, number |-> <<>>, topic_name |-> <<>>,
     segments |-> <<>>, questions |-> <<>>, images |-> <<>>]

CaseStudyStateInit ==
    [topic_number |-> <<>>,
     case_study_number |-> <<>>,
     topic_name |-> <<>>,
     current_case_study |-> NoCaseStudy,
     current_segment_name |-> <<>>,
     current_segment_contents |-> <<>>,
     in_case_study |-> FALSE,
     in_case_study_details |-> FALSE,
     next_image_is_case_study |-> FALSE]

\* mutant: the topic number and the case number survive the reset
Mut_reset_keeps_topic(s) ==
    [CaseStudyStateInit EXCEPT !.topic_number = s.topic_number,
                               !.case_study_number = s.case_study_number]

reset(s) == CaseStudyStateInit

\* mutant: a start marker leaves a case study that is open as it is
Mut_start_case_study_keeps_open(s, id) ==
    IF s.current_case_study # NoCaseStudy
    THEN [s EXCEPT !.in_case_study = TRUE]
    ELSE [s EXCEPT !.in_case_study = TRUE,
                   !.current_case_study =
                       [id |-> id,
                        topic_number |-> s.topic_number,
                        number |-> s.case_study_number,
                        topic_name |-> s.topic_name,
                        segments |-> <<>>,
                        questions |-> <<>>,
                        images |-> <<>>]]

start_case_study(s, id) ==
    [s EXCEPT !.in_case_study = TRUE,
              !.current_case_study =
                  [id |-> id,
                   topic_number |-> s.topic_number,
                   number |-> s.case_study_number,
                   topic_name |-> s.topic_name,
                   segments |-> <<>>,
                   questions |-> <<>>,
                   images |-> <<>>]]

finalize_current_segment(s) ==
    IF s.current_segment_name # <<>> /\ s.current_segment_contents # <<>>
       /\ s.current_case_study # NoCaseStudy
    THEN [s EXCEPT !.current_case_study.segments =
                       Append(@, [name |-> s.current_segment_name,
                                  contents |-> s.current_segment_contents]),
                   !.current_segment_contents = <<>>]
    ELSE s

(***************************************************************************)
(* core/case_study_processor.py: CaseStudyContentGrouper                   *)
(***************************************************************************)
GrouperInit ==
    [current_question |-> NoQuestion,
     questions |-> <<>>,
     case_studies |-> <<>>,
     standalone_questions |-> <<>>,
     state |-> CaseStudyStateInit]

NoImage == [path |-> ""]
TextEntry(content) == [type |-> "Text", content |-> content, image |-> NoImage]
TitleEntry(content) == [type |-> "Title", content |-> content, image |-> NoImage]
ImageEntry(img) == [type |-> "Image", content |-> <<>>, image |-> img]

\* mutant: the superseded question always goes to the standalone list
Mut_finalize_current_question_standalone(g) ==
    IF g.current_question # NoQuestion
    THEN [g EXCEPT !.standalone_questions = Append(@, g.current_question),
                   !.current_question = NoQuestion]
    ELSE g

\* mutant: the superseded question is stored with only its first content item
Mut_finalize_current_question_truncate(g) ==
    LET q == [g.current_question EXCEPT
                  !.content_items = SubSeq(@, 1, 1), !.text = SubSeq(@, 1, 1)]
    IN IF g.current_question # NoQuestion
       THEN IF g.state.in_case_study /\ g.state.current_case_study # NoCaseStudy
            THEN [g EXCEPT !.state.current_case_study.questions = Append(@, q),
                           !.current_question = NoQuestion]
            ELSE [g EXCEPT !.standalone_questions = Append(@, q),
                           !.current_question = NoQuestion]
       ELSE g

_finalize_current_question(g) ==
    IF g.current_question # NoQuestion
    THEN IF g.state.in_case_study /\ g.state.current_case_study # NoCaseStudy
         THEN [g EXCEPT !.state.current_case_study.questions =
                            Append(@, g.current_question),
                        !.current_question = NoQuestion]
         ELSE [g EXCEPT !.standalone_questions = Append(@, g.current_question),
                        !.current_question = NoQuestion]
    ELSE g

_finalize_case_study(g) ==
    LET g1 == IF g.current_question # NoQuestion /\ g.state.in_case_study
                 /\ g.state.current_case_study # NoCaseStudy
              THEN [g EXCEPT
                      !.state.current_case_study.questions =
                          IF \E k \in 1..Len(@) : @[k].number = g.current_question.number
                          THEN @
                          ELSE Append(@, g.current_question),
                      !.current_question = NoQuestion]
              ELSE g
        g2 == IF g1.state.current_case_study # NoCaseStudy
              THEN LET s == finalize_current_segment(g1.state)
                   IN [g1 EXCEPT !.state = s,
                                 !.case_studies = Append(@, s.current_case_study)]
              ELSE g1
    IN [g2 EXCEPT !.state = reset(g2.state)]

\* mutant: the still-open case study is not added at the end of the input
Mut_finalize_processing_no_case_study(g) ==
    IF g.current_question # NoQuestion
    THEN IF g.state.in_case_study /\ g.state.current_case_study # NoCaseStudy
         THEN [g EXCEPT !.state.current_case_study.questions =
                            Append(@, g.current_question)]
         ELSE [g EXCEPT !.standalone_questions = Append(@, g.current_question)]
    ELSE g

_finalize_processing(g) ==
    LET g1 == IF g.current_question # NoQuestion
              THEN IF g.state.in_case_study /\ g.state.current_case_study # NoCaseStudy
                   THEN [g EXCEPT !.state.current_case_study.questions =
                                      Append(@, g.current_question)]
                   ELSE [g EXCEPT !.standalone_questions =
                                      Append(@, g.current_question)]
              ELSE g
    IN IF g1.state.current_case_study # NoCaseStudy
       THEN LET s == finalize_current_segment(g1.state)
            IN [g1 EXCEPT !.state = s,
                          !.case_studies = Append(@, s.current_case_study)]
       ELSE g1

\* re.search(r'Topic\s+(\d+),\s+Case\s+Study\s+(\d+)', text): first match
TopicMatches(text) ==
    {i \in 1..(Len(text) - 1) :
        /\ text[i].m = "Topic" /\ text[i].arg # <<>>
        /\ text[i + 1].m = ", Case Study" /\ text[i + 1].arg # <<>>}

_extract_topic_name(text) == After("TopicName:", text)

\* mutant: the heading opens the new segment without closing the open one
Mut_handle_case_study_heading_no_finalize(g, text) ==
    [g EXCEPT !.state.current_segment_name = After("Segment:", text)]

_handle_case_study_heading(g, text) ==
    [g EXCEPT !.state = [finalize_current_segment(g.state) EXCEPT
                            !.current_segment_name = After("Segment:", text)]]

_handle_case_study_heading_title(g, text) ==
    [g EXCEPT !.state.current_segment_contents =
                  Append(@, TitleEntry(After("Title:", text)))]

\* Each handler returns [h |-> the branch that handled the item ("" for the
\* source's False), g |-> the grouper afterwards].
_handle_case_study_markers(g, it) ==
    LET text == it.content
        s == g.state
    IN IF TopicMatches(text) # {}
       THEN LET i == CHOOSE k \in TopicMatches(text) : \A j \in TopicMatches(text) : k <= j
            IN [h |-> "topic_case",
                g |-> [g EXCEPT !.state.topic_number = text[i].arg,
                                !.state.case_study_number = text[i + 1].arg]]
       ELSE IF Has("TopicName:", text)
       THEN [h |-> "topic_name",
             g |-> [g EXCEPT !.state.topic_name = _extract_topic_name(text)]]
       ELSE IF Has("CaseStudyStart:", text)
       THEN [h |-> "case_study_start",
             g |-> [g EXCEPT !.state = start_case_study(s, it.idx)]]
       ELSE IF Has("CaseStudyEnd:", text)
       THEN [h |-> "case_study_end", g |-> _finalize_case_study(g)]
       ELSE IF Has("CaseStudyDetailsStart:", text)
       THEN [h |-> "details_start",
             g |-> [g EXCEPT !.state.in_case_study_details = TRUE]]
       ELSE IF Has("CaseStudyDetailsEnd:", text)
       THEN [h |-> "details_end",
             g |-> [g EXCEPT !.state.in_case_study_details = FALSE,
                             !.state.next_image_is_case_study = FALSE]]
       ELSE IF s.in_case_study_details /\ Has("Segment:", text)
               /\ s.current_case_study # NoCaseStudy
       THEN [h |-> "segment", g |-> _handle_case_study_heading(g, text)]
       ELSE IF s.in_case_study_details /\ Has("Title:", text)
               /\ s.current_case_study # NoCaseStudy /\ s.current_segment_name # <<>>
       THEN [h |-> "title", g |-> _handle_case_study_heading_title(g, text)]
       ELSE IF Has("CaseStudyImage:", text)
       THEN [h |-> "case_study_image",
             g |-> [g EXCEPT !.state.next_image_is_case_study = TRUE]]
       ELSE [h |-> "", g |-> g]

_handle_question_markers(g, it) ==
    IF has_question_start(it)
    THEN [h |-> "question_start",
          g |-> [_finalize_current_question(g) EXCEPT
                    !.current_question = _create_question_from_item(it)]]
    ELSE [h |-> "", g |-> g]

\* mutant: the case-study-image flag stays set after the images were taken
Mut_handle_case_study_content_keeps_flag(g, it) ==
    LET text == it.content
        s == g.state
    IN IF s.next_image_is_case_study /\ it.images # <<>>
          /\ s.current_case_study # NoCaseStudy
       THEN [h |-> "case_study_images",
             g |-> [g EXCEPT
                      !.state.current_case_study.images = @ \o it.images,
                      !.state.current_segment_contents =
                          IF s.in_case_study_details /\ s.current_segment_name # <<>>
                          THEN @ \o [k \in 1..Len(it.images) |-> ImageEntry(it.images[k])]
                          ELSE @]]
       ELSE IF s.in_case_study_details /\ s.current_case_study # NoCaseStudy
       THEN IF s.current_segment_name # <<>>
            THEN [h |-> "details_content",
                  g |-> IF text # <<>>
                        THEN [g EXCEPT !.state.current_segment_contents =
                                           Append(@, TextEntry(text))]
                        ELSE g]
            ELSE IF text # <<>>
            THEN [h |-> "details_content",
                  g |-> [g EXCEPT !.state.current_segment_name = <<Tok("Introduction")>>,
                                  !.state.current_segment_contents =
                                      Append(@, TextEntry(text))]]
            ELSE [h |-> "", g |-> g]
       ELSE [h |-> "", g |-> g]

_handle_case_study_content(g, it) ==
    LET text == it.content
        s == g.state
    IN IF s.next_image_is_case_study /\ it.images # <<>>
          /\ s.current_case_study # NoCaseStudy
       THEN [h |-> "case_study_images",
             g |-> [g EXCEPT
                      !.state.current_case_study.images = @ \o it.images,
                      !.state.current_segment_contents =
                          IF s.in_case_study_details /\ s.current_segment_name # <<>>
                          THEN @ \o [k \in 1..Len(it.images) |-> ImageEntry(it.images[k])]
                          ELSE @,
                      !.state.next_image_is_case_study = FALSE]]
       ELSE IF s.in_case_study_details /\ s.current_case_study # NoCaseStudy
       THEN IF s.current_segment_name # <<>>
            THEN [h |-> "details_content",
                  g |-> IF text # <<>>
                        THEN [g EXCEPT !.state.current_segment_contents =
                                           Append(@, TextEntry(text))]
                        ELSE g]
            ELSE IF text # <<>>
            THEN [h |-> "details_content",
                  g |-> [g EXCEPT !.state.current_segment_name = <<Tok("Introduction")>>,
                                  !.state.current_segment_contents =
                                      Append(@, TextEntry(text))]]
            ELSE [h |-> "", g |-> g]
       ELSE [h |-> "", g |-> g]

\* mutant: the question-start marker is looked for before the case-study
\* markers
Mut_process_single_item_question_first(g, it) ==
    LET r1 == _handle_case_study_markers(g, it)
        r2 == _handle_question_markers(g, it)
        r3 == _handle_case_study_content(g, it)
    IN IF r2.h # "" THEN r2
       ELSE IF r1.h # "" THEN r1
       ELSE IF r3.h # "" THEN r3
       ELSE IF g.current_question # NoQuestion
       THEN [h |-> "question_content", g |-> _add_item_to_current_question(g, it)]
       ELSE [h |-> "ignored", g |-> g]

_process_single_item(g, it) ==
    LET r1 == _handle_case_study_markers(g, it)
        r2 == _handle_question_markers(g, it)
        r3 == _handle_case_study_content(g, it)
    IN IF r1.h # "" THEN r1
       ELSE IF r2.h # "" THEN r2
       ELSE IF r3.h # "" THEN r3
       ELSE IF g.current_question # NoQuestion
       THEN [h |-> "question_content", g |-> _add_item_to_current_question(g, it)]
       ELSE [h |-> "ignored", g |-> g]

RECURSIVE process_items_from(_, _, _)
process_items_from(g, items, i) ==
    IF i > Len(items) THEN g
    ELSE process_items_from(_process_single_item(g, items[i]).g, items, i + 1)

\* process_content_items: (standalone_questions, case_studies) of a fresh grouper
process_content_items(items) ==
    LET g == _finalize_processing(process_items_from(GrouperInit, items, 1))
    IN [standalone_questions |-> g.standalone_questions,
        case_studies |-> g.case_studies]

(***************************************************************************)
(* image_processing/image_processor.py: identify_image_types               *)
(***************************************************************************)
ImagePaths == {"p1", "p2"}

\* image_types = {}: no path has a type yet
NoImageTypes == [p \in ImagePaths |-> None]

\* mutant: independent ifs instead of the if/elif chain (the last test wins)
Mut_marker_type_last_wins(content, cur) ==
    IF Has("JustCoordinates:", content) THEN "just_coordinates"
    ELSE IF Has("BackgroundImage:", content) THEN "background"
    ELSE IF Has("PositionedImage:", content) THEN "positioned"
    ELSE IF Has("JustDropDown:", content) THEN "justdropdown"
    ELSE IF Has("QuestionDescriptionImage:", content) THEN "description"
    ELSE IF Has("AnswerOptionImage:", content) THEN "answer"
    ELSE IF Has("QuestionOptionImage:", content) THEN "question"
    ELSE cur

\* the if/elif chain over the item's content: the new current_type
marker_type(content, cur) ==
    IF Has("QuestionOptionImage:", content) THEN "question"
    ELSE IF Has("AnswerOptionImage:", content) THEN "answer"
    ELSE IF Has("QuestionDescriptionImage:", content) THEN "description"
    ELSE IF Has("JustDropDown:", content) THEN "justdropdown"
    ELSE IF Has("PositionedImage:", content) THEN "positioned"
    ELSE IF Has("BackgroundImage:", content) THEN "background"
    ELSE IF Has("JustCoordinates:", content) THEN "just_coordinates"
    ELSE cur

\* one iteration of the loop: [current_type, image_types] after the item
identify_item(it, cur, types) ==
    LET c == marker_type(it.content, cur)
    IN [current_type |-> c,
        image_types |->
            IF it.images # <<>> /\ c # None
            THEN [p \in ImagePaths |->
                     IF \E k \in 1..Len(it.images) : it.images[k].path = p
                     THEN c ELSE types[p]]
            ELSE types]

RECURSIVE identify_from(_, _, _, _)
identify_from(items, i, cur, types) ==
    IF i > Len(items) THEN types
    ELSE LET r == identify_item(items[i], cur, types)
         IN identify_from(items, i + 1, r.current_type, r.image_types)

identify_image_types(content_items) ==
    identify_from(content_items, 1, None, NoImageTypes)

(***************************************************************************)
(* image_processing/image_validation.py                                    *)
(***************************************************************************)
\* an error message.  line: "violation" for f"Question {n} ({label}) -
\* Missing {missing}", "indented" for the same behind two blanks, "header"
\* for f"Case Study {cs} contains invalid questions:", "blank" for ""
Msg(line, cs, number, label, missing) ==
    [line |-> line, cs |-> cs, number |-> number, label |-> label, missing |-> missing]

\* image_markers: the marker is in a content item or in the question text
MarkerPresent(q, marker) ==
    \/ \E k \in 1..Len(q.content_items) : Has(marker, q.content_items[k].content)
    \/ \E k \in 1..Len(q.text) : Has(marker, q.text[k])

\* the tests of the branch of a type, in order: <<the marker tested, the
\* type label of the message, the role the message names as missing>>
TypeChecks(q_type) ==
    CASE q_type = "HOTSPOT" ->
           <<<<"QuestionOptionImage:", "HOTSPOT", "QuestionOptionImage">>,
             <<"AnswerOptionImage:", "HOTSPOT", "AnswerOptionImage">>>>
      [] q_type = "DRAGDROP" ->
           <<<<"QuestionOptionImage:", "DRAGDROP", "QuestionOptionImage">>,
             <<"AnswerOptionImage:", "DRAGDROP", "AnswerOptionImage">>>>
      [] q_type = "DROPDOWN" ->
           <<<<"QuestionOptionImage:", "DROPDOWN Type 1", "QuestionOptionImage">>,
             <<"AnswerOptionImage:", "DROPDOWN Type 1", "AnswerOptionImage">>>>
      [] q_type = "POSITIONEDDROPDOWN" ->
           <<<<"BackgroundImage:", "POSITIONEDDROPDOWN", "PositionedImage">>,
             <<"PositionedImage:", "POSITIONEDDROPDOWN", "PositionedImage">>>>
      [] q_type = "POSITIONEDDRAGDROP" ->
           <<<<"BackgroundImage:", "POSITIONEDDRAGDROP", "BackgroundImage">>,
             <<"PositionedImage:", "POSITIONEDDRAGDROP", "PositionedImage">>>>
      [] OTHER -> <<>>

\* one iteration of the loop over the questions: the messages it appends
validate_question(q) ==
    LET checks == TypeChecks(q.type)
        hits == SelectSeqIdx(checks, {k \in 1..Len(checks) :
                                         ~MarkerPresent(q, checks[k][1])}, 1)
    IN [k \in 1..Len(hits) |-> Msg("violation", <<>>, q.number, hits[k][2], hits[k][3])]

RECURSIVE validate_from(_, _, _)
validate_from(questions, i, r) ==
    IF i > Len(questions) THEN r
    ELSE LET e == validate_question(questions[i])
         IN validate_from(questions, i + 1,
                          [valid |-> r.valid /\ e = <<>>, errors |-> r.errors \o e])

validate_question_images(questions) ==
    validate_from(questions, 1, [valid |-> TRUE, errors |-> <<>>])

RECURSIVE validate_cs_from(_, _, _)
validate_cs_from(case_studies, i, r) ==
    IF i > Len(case_studies) THEN r
    ELSE LET cs == case_studies[i]
             v == validate_question_images(cs.questions)
             cs_number == <<cs.topic_number, cs.number>>
         IN validate_cs_from(case_studies, i + 1,
              IF ~v.valid
              THEN [valid |-> FALSE,
                    errors |-> r.errors
                               \o <<Msg("header", cs_number, <<>>, "", "")>>
                               \o [k \in 1..Len(v.errors) |->
                                      [v.errors[k] EXCEPT !.line = "indented"]]
                               \o <<Msg("blank", <<>>, <<>>, "", "")>>]
              ELSE r)

validate_case_study_questions(case_studies) ==
    validate_cs_from(case_studies, 1, [valid |-> TRUE, errors |-> <<>>])

(***************************************************************************)
(* questions/question_base.py: BaseQuestion                                *)
(***************************************************************************)
StrippedMarkers ==
    {"QuestionDescriptionImage:", "BackgroundImage:", "PositionedImage:",
     "QuestionOptionImage:", "AnswerOptionImage:", "JustDropDown:", "CaseStudyImage:"}

QuestionTypeWords ==
    {"FillInTheBlank", "MultipleChoice", "TrueFalse", "SingleChoice", "MultipleSelect",
     "DropDown", "DragDrop", "Hotspot", "Simulation", "DROPDOWN", "DRAGDROP", "HOTSPOT",
     "SIMULATION", "POSITIONEDDROPDOWN", "PositionedDropDown", "POSITIONEDDRAGDROP",
     "POSITIONEDDragDrop"}

\* a word that one of the URL patterns matches
IsUrl(t) == t.m \in {"https://u", "www.u.org"}

RECURSIVE Filter(_, _)
\* re.sub of the markers in drop by '': the remaining tokens
Filter(text, drop) ==
    IF text = <<>> THEN <<>>
    ELSE (IF Head(text).m \in drop THEN <<>> ELSE <<Head(text)>>) \o Filter(Tail(text), drop)

\* "s in line" on strings: s occurs in line as a contiguous run
IsInfix(s, line) ==
    \E o \in 0..(Len(line) - Len(s)) : SubSeq(line, o + 1, o + Len(s)) = s

\* the lines after the first "Explanation:", without the empty lines and
\* the lines that hold a URL
_extract_explanation(lines) ==
    LET ks == {k \in 1..Len(lines) : Has("Explanation:", lines[k])}
    IN IF ks = {} THEN <<>>
       ELSE LET k0 == CHOOSE k \in ks : \A j \in ks : k <= j
                rest == <<After("Explanation:", lines[k0])>>
                        \o SubSeq(lines, k0 + 1, Len(lines))
            IN SelectSeqIdx(rest, {k \in 1..Len(rest) :
                                      /\ rest[k] # <<>>
                                      /\ ~\E t \in Range(rest[k]) : IsUrl(t)}, 1)

_is_answer_content(text) ==
    \/ text # <<>> /\ Upper(text[1].m) = "ANSWER:"
    \/ HasUpper("CHOICES", text)
    \/ IsOptionLine(text)
    \/ text # <<>> /\ Upper(text[1].m) = "EXPLANATION:"
    \/ \E t \in Range(text) : IsUrl(t)

_is_question_type_duplicate(text) ==
    Len(text) = 1 /\ text[1].arg = <<>> /\ text[1].m \in QuestionTypeWords

_is_explanation_duplicate(text, lines) ==
    \E k \in 1..Len(_extract_explanation(lines)) :
        IsInfix(text, _extract_explanation(lines)[k])

_replace_blanks_with_keyword(text) ==
    [k \in 1..Len(text) |-> IF text[k].m = "___" THEN Tok("[blank]") ELSE text[k]]

\* _clean_item_text(text) of a question whose text is lines
_clean_item_text(content, lines) ==
    LET t1 == Filter(content, StrippedMarkers)
        t2 == IF t1 # <<>> /\ Upper(t1[1].m) = "QUESTION NO:" /\ t1[1].arg # <<>>
              THEN Tail(t1) ELSE t1
    IN IF _is_answer_content(t2) THEN <<>>
       ELSE IF _is_question_type_duplicate(t2) THEN <<>>
       ELSE IF _is_explanation_duplicate(t2, lines) THEN <<>>
       ELSE _replace_blanks_with_keyword(t2)

\* a <Contents> node; idx is the content item it was made from
TextNode(text, idx) == [ContentType |-> "Text", text |-> text, path |-> "", idx |-> idx]
ImageNode(kind, path, idx) == [ContentType |-> kind, text |-> <<>>, path |-> path, idx |-> idx]

RECURSIVE ImageNodes(_, _, _)
\* lines 68-76: the nodes of the images of one content item
ImageNodes(images, types, idx) ==
    IF images = <<>> THEN <<>>
    ELSE LET ty == IF types[Head(images).path] = None THEN "description"
                   ELSE types[Head(images).path]
         IN (IF ty = "description" THEN <<ImageNode("Image", Head(images).path, idx)>>
             ELSE IF ty = "background" THEN <<ImageNode("BImage", Head(images).path, idx)>>
             ELSE <<>>)
            \o ImageNodes(Tail(images), types, idx)

RECURSIVE sequential_from(_, _, _)
\* lines 55-76: the loop over the content items from item i on
sequential_from(q, i, types) ==
    IF i > Len(q.content_items) THEN <<>>
    ELSE LET it == q.content_items[i]
             clean == IF it.content # <<>> THEN _clean_item_text(it.content, q.text)
                      ELSE <<>>
         IN (IF clean # <<>> THEN <<TextNode(clean, it.idx)>> ELSE <<>>)
            \o ImageNodes(it.images, types, it.idx)
            \o sequential_from(q, i + 1, types)

_get_image_types(q) == identify_image_types(q.content_items)

\* the <Contents> nodes of the question, in document order
_add_sequential_content(q) == sequential_from(q, 1, _get_image_types(q))

(***************************************************************************)
(* questions/question_factory.py, questions/question_types.py              *)
(***************************************************************************)
\* get_xml_kind() of the class that QuestionFactory.create_question picks
get_xml_kind(q_type) ==
    CASE Upper(q_type) = "HOTSPOT" -> "Hotspot"
      [] Upper(q_type) = "DRAGDROP" -> "DragDrop"
      [] Upper(q_type) = "DROPDOWN" -> "DropDown"
      [] Upper(q_type) = "FILLINTHEBLANK" -> "FillInTheBlank"
      [] Upper(q_type) = "POSITIONEDDROPDOWN" -> "PositionedDropDown"
      [] Upper(q_type) = "POSITIONEDDRAGDROP" -> "PositionedDragDrop"
      [] Upper(q_type) = "SIMULATION" -> "Simulation"
      [] OTHER -> q_type

\* a <Question> element: Kind, QuestionNo, the <Contents> nodes, Error
Element(kind, number, contents, error) ==
    [Kind |-> kind, QuestionNo |-> number, Contents |-> contents, Error |-> error]

\* build_xml: the part of the element common to all question types (the
\* type-specific nodes come from the vision service and hold no <Contents>
\* child of the <Question> element)
build_xml(q) == Element(get_xml_kind(q.type), q.number, _add_sequential_content(q), "")

(***************************************************************************)
(* questions/question_processors.py                                        *)
(***************************************************************************)
\* lines 29-36: q_type after the type update of text-based questions
updated_q_type(q) == extract_options_from_text_type(q.text, q.type)

\* mutant: the exception is swallowed and no result is appended
Mut_build_failed_no_result(results, q) == results

\* lines 50-62: the except branch appends a fallback element that holds
\* QuestionNo, Kind and Error only
build_failed(results, q) ==
    Append(results, [number |-> q.number,
                     type |-> updated_q_type(q),
                     element |-> Element(updated_q_type(q), q.number, <<>>, "error")])

\* lines 38-48: the question object is created, its element built and appended
build_succeeded(results, q) ==
    Append(results, [number |-> q.number,
                     type |-> updated_q_type(q),
                     element |-> build_xml([q EXCEPT !.type = updated_q_type(q)])])

\* one iteration of the loop; raises: building this question raises
process_question(results, q, raises) ==
    IF raises THEN build_failed(results, q) ELSE build_succeeded(results, q)

RECURSIVE process_from(_, _, _, _)
process_from(questions, i, fails, results) ==
    IF i > Len(questions) THEN results
    ELSE process_from(questions, i + 1, fails,
                      process_question(results, questions[i], i \in fails))

\* process_questions(questions); fails: the positions whose build raises
process_questions(questions, fails) == process_from(questions, 1, fails, <<>>)

process_case_study_questions(questions, fails) == process_questions(questions, fails)

\* the <CaseStudy> element: Number, Name and the <Segments> with their entries
build_xml_for_case_study(case_study) ==
    [present |-> TRUE,
     Number |-> case_study.topic_number,
     Name |-> case_study.topic_name,
     Segments |-> [k \in 1..Len(case_study.segments) |->
                      [Name |-> case_study.segments[k].name,
                       Contents |-> case_study.segments[k].contents]]]

(***************************************************************************)
(* output/xml_generator.py: generate_xml_output                            *)
(***************************************************************************)
RECURSIVE IntOf(_)
\* int(s) of a digit string
IntOf(digits) ==
    IF digits = <<>> THEN 0
    ELSE 10 * IntOf(SubSeq(digits, 1, Len(digits) - 1)) + digits[Len(digits)]

\* a < b on the tuples the sort keys are
KeyLess(a, b) == a[1] < b[1] \/ (a[1] = b[1] /\ a[2] < b[2])

\* mutant: the list is left in the order in which it was filled
Mut_SortByKey_append_order(s, keys) == s

\* list.sort(key=...): a stable ascending sort; keys[k] is the key of s[k]
SortByKey(s, keys) ==
    LET Rank(i) == Cardinality({j \in 1..Len(s) :
                                  \/ KeyLess(keys[j], keys[i])
                                  \/ (keys[j] = keys[i] /\ j <= i)})
    IN [p \in 1..Len(s) |-> s[CHOOSE i \in 1..Len(s) : Rank(i) = p]]

\* lines 52-55: the key of a case study.  A token is a digit string or, when
\* no heading set it, the empty string, which is its own key; the keys of
\* empty tokens are equal to each other
CaseStudyKey(cs) == <<IntOf(cs.topic_number), IntOf(cs.number)>>

\* str.isdigit() of a token
isdigit(token) == token # <<>>

\* the sort compares an int with a str (TypeError): one case study has a
\* digit token where another has the empty string
CaseStudySortRaises(case_studies) ==
    \E i, j \in 1..Len(case_studies) :
        \/ isdigit(case_studies[i].topic_number) /\ ~isdigit(case_studies[j].topic_number)
        \/ /\ isdigit(case_studies[i].topic_number) = isdigit(case_studies[j].topic_number)
           /\ case_studies[i].topic_number = case_studies[j].topic_number
           /\ isdigit(case_studies[i].number) /\ ~isdigit(case_studies[j].number)

\* lines 71 and 85: the key of a result
ResultKey(r) == <<IntOf(r.number), 0>>

\* mutant: a result without number is sorted like any other
Mut_ResultKeyRaises_never(r) == FALSE

\* None.isdigit() raises: the question has no number
ResultKeyRaises(r) == r.number = NoNumber

NoCaseStudyElement == [present |-> FALSE, Number |-> <<>>, Name |-> <<>>, Segments |-> <<>>]

\* the positions of the questions whose start item is one of failing
FailsIn(questions, failing) ==
    {k \in 1..Len(questions) : questions[k].content_items[1].idx \in failing}

\* mutant: the results stay in the order the dispatcher returned them
Mut_SortedResults_unsorted(questions, failing) ==
    process_questions(questions, FailsIn(questions, failing))

\* lines 57-75 and 77-89: the results of one testlet, sorted
SortedResults(questions, failing) ==
    LET results == process_questions(questions, FailsIn(questions, failing))
    IN SortByKey(results, [k \in 1..Len(results) |-> ResultKey(results[k])])

\* generate_xml_output(standalone_questions, case_studies); failing: the
\* start items of the questions whose build raises.  raised: an exception
\* leaves the function; testlets: the <Testlets> elements of the document,
\* each with the tags of its children in the order of the appends
generate_xml_output(standalone_questions, case_studies, failing) ==
    LET sorted == SortByKey(case_studies,
                            [k \in 1..Len(case_studies) |-> CaseStudyKey(case_studies[k])])
        cs_testlets ==
            [k \in 1..Len(sorted) |->
                LET rs == SortedResults(sorted[k].questions, failing)
                IN [case_study |-> build_xml_for_case_study(sorted[k]),
                    questions |-> [j \in 1..Len(rs) |-> rs[j].element],
                    children |-> <<"CaseStudy">> \o [j \in 1..Len(rs) |-> "Question"]]]
        standalone_testlet ==
            IF standalone_questions # <<>>
            THEN LET rs == SortedResults(standalone_questions, failing)
                 IN <<[case_study |-> NoCaseStudyElement,
                       questions |-> [j \in 1..Len(rs) |-> rs[j].element],
                       children |-> [j \in 1..Len(rs) |-> "Question"]]>>
            ELSE <<>>
    IN IF \/ CaseStudySortRaises(case_studies)
          \/ \E k \in 1..Len(case_studies) : \E j \in 1..Len(case_studies[k].questions) :
                ResultKeyRaises(case_studies[k].questions[j])
          \/ \E j \in 1..Len(standalone_questions) :
                ResultKeyRaises(standalone_questions[j])
       THEN [raised |-> TRUE, testlets |-> <<>>]
       ELSE [raised |-> FALSE, testlets |-> cs_testlets \o standalone_testlet]

(***************************************************************************)
(* app.py: main.  st.session_state is the record session; origin is the    *)
(* script run that assigned processed_questions/processed_case_studies     *)
(* (the identity of the stored list objects), 0 for the initial [].        *)
(***************************************************************************)
\* lines 38-48: the keys of a fresh session
SessionInit ==
    [processed_questions |-> <<>>,
     processed_case_studies |-> <<>>,
     processing_complete |-> FALSE,
     origin |-> 0]

\* the ContentItem objects extract_content_from_odt returns for a document
Items(doc) == [k \in 1..Len(doc) |-> ContentItem(doc[k].content, doc[k].images, k)]

\* mutant: processing goes on when one of the two validations passed
Mut_validation_passed_either(standalone_valid, case_studies_valid) ==
    standalone_valid \/ case_studies_valid

\* line 79, negated: processing goes on only if both validations passed
validation_passed(standalone_valid, case_studies_valid) ==
    standalone_valid /\ case_studies_valid

\* lines 55-118: script run n with the Process button clicked on the
\* uploaded document doc.  extracted: extract_content_from_odt returns
\* (else it raises); counted: check_missing_images returns (else it raises).
\* outcome "stopped": st.stop() ended the script run at line 97;
\* "exception": the except clause at line 116 displayed an error.
process_clicked(s, doc, n, extracted, counted) ==
    LET g == process_content_items(Items(doc))
        standalone == validate_question_images(g.standalone_questions)
        case_studies == validate_case_study_questions(g.case_studies)
        stored == [s EXCEPT !.processed_questions = g.standalone_questions,
                            !.processed_case_studies = g.case_studies,
                            !.origin = n]
    IN IF ~extracted THEN [session |-> s, outcome |-> "exception"]
       ELSE IF ~validation_passed(standalone.valid, case_studies.valid)
       THEN [session |-> s, outcome |-> "stopped"]
       ELSE IF ~counted THEN [session |-> stored, outcome |-> "exception"]
       ELSE [session |-> [stored EXCEPT !.processing_complete = TRUE],
             outcome |-> "complete"]

\* lines 161-164: the Generate XML button was clicked
generate_clicked(s, failing) ==
    generate_xml_output(s.processed_questions, s.processed_case_studies, failing)

(***************************************************************************)
(* The vision-service calls: modules/config.py,                            *)
(* modules/image_processing/api_client.py and call_claude_api of           *)
(* modules/image_processing/positioned_dropdown_processor.py.  An attempt  *)
(* either fails ("fail": the request raises, or the service answers with   *)
(* a status other than 200) or yields a response text.                     *)
(***************************************************************************)
MAX_API_RETRIES == 3
RETRY_DELAY_BASE == 2

\* what response.text.strip() can be: a JSON list without entries, a JSON
\* list of one object, "header: value" lines, and prose
Responses == {"[]", "[{}]", "h: v", "prose"}
Outcomes == {"fail"} \cup Responses

NoCall == [kind |-> "none", structured |-> FALSE, retries |-> 0,
           outcomes |-> <<>>, waits |-> <<>>, status |-> "none", result |-> ""]

\* the locals of a call on entry; structured is '"JSON" in prompt'
NewCall(kind, structured) ==
    [kind |-> kind, structured |-> structured, retries |-> 0,
     outcomes |-> <<>>, waits |-> <<>>, status |-> "running", result |-> ""]

\* one iteration of the while loop of call_gemini_with_retry
gemini_attempt(c, outcome) ==
    IF outcome = "fail"
    THEN [c EXCEPT !.outcomes = Append(@, outcome),
                   !.retries = @ + 1,
                   !.waits = Append(@, RETRY_DELAY_BASE * (c.retries + 1))]
    ELSE [c EXCEPT !.outcomes = Append(@, outcome),
                   !.status = "returned",
                   !.result = outcome]

\* the give-up branch raises instead of returning the default
Mut_gemini_exhausted_raises(c) == [c EXCEPT !.status = "raised"]

\* the statements after the loop of call_gemini_with_retry
gemini_exhausted(c) ==
    [c EXCEPT !.status = "returned",
              !.result = IF c.structured THEN "[]" ELSE ""]

RECURSIVE gemini_loop(_, _)
gemini_loop(c, pattern) ==
    IF c.status # "running" THEN c
    ELSE IF c.retries < MAX_API_RETRIES
         THEN gemini_loop(gemini_attempt(c, pattern[Len(c.outcomes) + 1]), pattern)
         ELSE gemini_exhausted(c)

\* pattern[i] is the outcome the i-th attempt would have
call_gemini_with_retry(structured, pattern) ==
    gemini_loop(NewCall("gemini", structured), pattern)

\* the prompt of extract_text_from_image does not contain "JSON"
extract_text_from_image(pattern) == call_gemini_with_retry(FALSE, pattern).result

\* call_claude_api: one request, and an exception when it does not succeed
call_claude_api(c, outcome) ==
    IF outcome = "fail"
    THEN [c EXCEPT !.outcomes = Append(@, outcome), !.status = "raised"]
    ELSE [c EXCEPT !.outcomes = Append(@, outcome),
                   !.status = "returned",
                   !.result = outcome]

RetryIdle ==
    /\ api_call = NoCall
    /\ api_log = <<>>

(***************************************************************************)
(* The Dropdown builder: DropdownQuestion of                               *)
(* modules/questions/question_types.py with extract_dropdown_questions and *)
(* extract_dropdown_answers of modules/image_processing/image_processor.py.*)
(* An image is modelled by its role; a parsed JSON object by "{}".         *)
(***************************************************************************)
\* json.loads on the text between the first '[' and the last ']'
json_loads(raw) ==
    CASE raw = "[]" -> [ok |-> TRUE, data |-> <<>>]
      [] raw = "[{}]" -> [ok |-> TRUE, data |-> <<"{}">>]
      [] OTHER -> [ok |-> FALSE, data |-> <<>>]

\* the lines 'header: value' of a text, as answer items
manual_answers(text) ==
    IF text = "h: v"
    THEN <<[statement_header |-> "h", answer_header |-> "", answer |-> "v"]>>
    ELSE <<>>

\* what the build keeps of a call that has ended
CallSummary(c) ==
    [structured |-> c.structured, status |-> c.status, result |-> c.result,
     exhausted |-> /\ Len(c.outcomes) = MAX_API_RETRIES
                   /\ \A i \in 1..Len(c.outcomes) : c.outcomes[i] = "fail"]

_get_categorized_images(images) ==
    LET q == SelectSeq(images, LAMBDA r : r = "question")
        a == SelectSeq(images, LAMBDA r : r = "answer")
    IN  IF q = <<>> /\ a = <<>> /\ images # <<>>
        THEN IF Len(images) >= 2
             THEN [q_images |-> <<images[1]>>, a_images |-> <<images[2]>>]
             ELSE [q_images |-> <<images[1]>>, a_images |-> <<>>]
        ELSE [q_images |-> q, a_images |-> a]

\* the data extract_dropdown_questions returns for the text of its call
extract_dropdown_questions(raw_text) ==
    LET parsed == json_loads(raw_text)
    IN  IF parsed.ok THEN parsed.data ELSE <<>>

\* the entries of the answer list for parsed JSON objects
answer_items(data) ==
    [i \in 1..Len(data) |->
        [statement_header |-> "", answer_header |-> "", answer |-> ""]]

\* one OptionSet per object of question_data: its index and its options
_add_dropdown_options_to_xml(question_data) ==
    [i \in 1..Len(question_data) |-> [index |-> i, Options |-> <<>>]]

\* the Answer children: from answers_data, or from the text of the image
\* when there is no answers_data and there is an answer image
_add_dropdown_answers_to_xml(answers_data, a_images, answer_text) ==
    IF answers_data = <<>> /\ a_images # <<>>
    THEN manual_answers(answer_text)
    ELSE answers_data

NoElement == [Kind |-> "", QuestionOptions |-> <<>>, Answers |-> <<>>]

DropdownInit ==
    [stage |-> "idle", images |-> <<>>, q_images |-> <<>>, a_images |-> <<>>,
     question_data |-> <<>>, answers_data |-> <<>>, calls |-> <<>>,
     raised |-> FALSE, element |-> NoElement]

\* an exception of a vision call leaves _add_question_specific_elements
build_raises(b, c) ==
    [b EXCEPT !.stage = "built", !.raised = TRUE,
              !.calls = Append(@, CallSummary(c))]

\* lines 194-201: the images by role, and the question data
extract_question_data(b, pattern) ==
    IF b.q_images = <<>>
    THEN [b EXCEPT !.stage = "answers"]
    ELSE LET c == call_gemini_with_retry(TRUE, pattern)
         IN  IF c.status = "raised" THEN build_raises(b, c)
             ELSE [b EXCEPT !.stage = "answers",
                            !.calls = Append(@, CallSummary(c)),
                            !.question_data = extract_dropdown_questions(c.result)]

\* lines 203-206 up to the json.loads of extract_dropdown_answers
extract_answers_data(b, pattern) ==
    IF b.a_images = <<>>
    THEN [b EXCEPT !.stage = "add"]
    ELSE LET c == call_gemini_with_retry(TRUE, pattern)
             parsed == json_loads(c.result)
         IN  IF c.status = "raised" THEN build_raises(b, c)
             ELSE IF parsed.ok
                  THEN [b EXCEPT !.stage = "add",
                                 !.calls = Append(@, CallSummary(c)),
                                 !.answers_data = answer_items(parsed.data)]
                  ELSE [b EXCEPT !.stage = "manual",
                                 !.calls = Append(@, CallSummary(c))]

\* the except branch of extract_dropdown_answers
extract_answers_manually(b, pattern) ==
    LET c == call_gemini_with_retry(FALSE, pattern)
    IN  IF c.status = "raised" THEN build_raises(b, c)
        ELSE [b EXCEPT !.stage = "add",
                       !.calls = Append(@, CallSummary(c)),
                       !.answers_data = manual_answers(c.result)]

\* lines 208-210: the option sets and the answers are added to the element
add_dropdown_elements(b, pattern) ==
    LET fallback == b.answers_data = <<>> /\ b.a_images # <<>>
        c == call_gemini_with_retry(FALSE, pattern)
    IN  IF fallback /\ c.status = "raised" THEN build_raises(b, c)
        ELSE [b EXCEPT
                !.stage = "built",
                !.calls = IF fallback THEN Append(@, CallSummary(c)) ELSE @,
                !.element =
                    [Kind |-> "DropDown",
                     QuestionOptions |-> _add_dropdown_options_to_xml(b.question_data),
                     Answers |-> _add_dropdown_answers_to_xml(
                                     b.answers_data, b.a_images, c.result)]]

DropdownIdle == dd_build = DropdownInit

(***************************************************************************)
(* The Hotspot answer matching: HotspotQuestion._add_answers_to_xml of     *)
(* modules/questions/question_types.py.  A statement is a sequence of      *)
(* characters; a score is the fraction num/den (the floats of the code     *)
(* order as the fractions do for strings this short).                      *)
(***************************************************************************)
\* str.lower() on a character
lower_char(ch) == CASE ch = "A" -> "a" [] ch = "B" -> "b" [] OTHER -> ch

lower(s) == [k \in 1..Len(s) |-> lower_char(s[k])]

\* the matching blocks <<i, j, k>> of a[alo..ahi-1] and b[blo..bhi-1]
Blocks(a, b, alo, ahi, blo, bhi) ==
    {x \in (alo..(ahi - 1)) \X (blo..(bhi - 1)) \X (1..Len(a)) :
        /\ x[1] + x[3] <= ahi
        /\ x[2] + x[3] <= bhi
        /\ \A d \in 0..(x[3] - 1) : a[x[1] + d] = b[x[2] + d]}

\* difflib find_longest_match: a longest block, of those the one that starts
\* first in a, of those the one that starts first in b
find_longest_match(a, b, alo, ahi, blo, bhi) ==
    LET bs == Blocks(a, b, alo, ahi, blo, bhi)
    IN CHOOSE x \in bs :
          \A y \in bs :
              \/ x[3] > y[3]
              \/ /\ x[3] = y[3]
                 /\ \/ x[1] < y[1]
                    \/ x[1] = y[1] /\ x[2] <= y[2]

RECURSIVE matching_size(_, _, _, _, _, _)
\* difflib get_matching_blocks: the sizes of the longest block and of the
\* blocks found to its left and to its right, added up
matching_size(a, b, alo, ahi, blo, bhi) ==
    IF Blocks(a, b, alo, ahi, blo, bhi) = {} THEN 0
    ELSE LET x == find_longest_match(a, b, alo, ahi, blo, bhi)
         IN x[3] + matching_size(a, b, alo, x[1], blo, x[2])
                 + matching_size(a, b, x[1] + x[3], ahi, x[2] + x[3], bhi)

\* difflib SequenceMatcher(None, a, b).ratio(): 2.0 * matches / length, and
\* 1.0 when both are empty
ratio(a, b) ==
    IF Len(a) + Len(b) = 0 THEN [num |-> 1, den |-> 1]
    ELSE [num |-> 2 * matching_size(a, b, 1, Len(a) + 1, 1, Len(b) + 1),
          den |-> Len(a) + Len(b)]

\* x > y on scores
Greater(x, y) == x.num * y.den > y.num * x.den

\* mutant: a score of exactly 0.6 is accepted
Mut_exceeds_threshold_inclusive(score) == ~Greater([num |-> 6, den |-> 10], score)

\* line 88: seq_score > 0.6
exceeds_threshold(score) == Greater(score, [num |-> 6, den |-> 10])

NoMatch == [found |-> FALSE, stmt |-> <<>>, score |-> [num |-> 0, den |-> 1]]

RECURSIVE best_match_from(_, _, _, _)
\* lines 82-90: the loop over the option statements from position k
best_match_from(options, ans_stmt, k, best) ==
    IF k > Len(options) THEN best
    ELSE LET seq_score == ratio(lower(options[k]), lower(ans_stmt))
         IN best_match_from(options, ans_stmt, k + 1,
                IF Greater(seq_score, best.score) /\ exceeds_threshold(seq_score)
                THEN [found |-> TRUE, stmt |-> options[k], score |-> seq_score]
                ELSE best)

\* lines 78-95: the statement attribute of the Answer of an item
final_statement(options, ans_stmt) ==
    LET best == best_match_from(options, ans_stmt, 1, NoMatch)
    IN IF best.found /\ best.stmt # <<>> THEN best.stmt ELSE ans_stmt

\* offered counts the items of answers_data, emitted the Answer nodes
HotspotInit ==
    [options |-> <<>>, offered |-> 0, emitted |-> 0, ans_stmt |-> <<>>,
     statement |-> <<>>]

\* one item of answers_data, lines 76-96: the loop at line 77 is entered only
\* with options, so nothing is emitted without them
add_answer_to_xml(h, ans_stmt) ==
    IF h.options = <<>> THEN [h EXCEPT !.offered = @ + 1]
    ELSE [h EXCEPT !.offered = @ + 1,
                   !.emitted = @ + 1,
                   !.ans_stmt = ans_stmt,
                   !.statement = final_statement(h.options, ans_stmt)]

HotspotIdle == hs_answers = HotspotInit

(***************************************************************************)
(* The text-based builder: TextBasedQuestion of                            *)
(* modules/questions/question_types.py and extract_options_from_text of    *)
(* modules/utils/text_helpers.py.  The letters A and B are 1 and 2; the    *)
(* token "Answer:" carries the comma-separated letters that follow it; a   *)
(* token "A.x" is an option letter that no white space follows.            *)
(***************************************************************************)
\* re.findall(r'\b[A-Z]\b', ...) on one token
standalone_letters(tok) ==
    CASE tok.m \in {"Answer:", "answer:"} -> tok.arg
      [] tok.m \in {"A", "A.", "A.x"} -> <<1>>
      [] tok.m \in {"B", "B.", "B.x"} -> <<2>>
      [] OTHER -> <<>>

RECURSIVE letters_in(_)
letters_in(tokens) ==
    IF tokens = <<>> THEN <<>>
    ELSE standalone_letters(Head(tokens)) \o letters_in(Tail(tokens))

\* the letter of an option token
option_letter(tok) == IF tok.m \in {"A.", "A.x"} THEN 1 ELSE 2

\* extract_options_from_text(text, q_type)[0:2]: the letters of the option
\* lines of the text and the letters of its answer line
extract_options_from_text(lines, q_type) ==
    IF q_type \in {"SingleChoice", "MultipleChoice"}
    THEN LET ks == {k \in 1..Len(lines) : IsOptionLine(lines[k])}
             ls == SelectSeqIdx(lines, ks, 1)
         IN [options |-> [k \in 1..Len(ls) |-> option_letter(ls[k][1])],
             correct_answers |-> AnswerLetters(Flatten(lines))]
    ELSE [options |-> <<>>, correct_answers |-> <<>>]

\* lines 401-416: the content items that begin with a letter and a dot
_extract_options_from_content_items(q) ==
    LET ks == {k \in 1..Len(q.content_items) :
                  /\ q.content_items[k].content # <<>>
                  /\ q.content_items[k].content[1].m \in {"A.", "B.", "A.x", "B.x"}}
        its == SelectSeqIdx(q.content_items, ks, 1)
    IN [k \in 1..Len(its) |-> option_letter(its[k].content[1])]

\* lines 418-437: the standalone capital letters after the first "Answer:" of
\* the text, then those of every content item that starts with "answer:"
_extract_answers_from_text(q) ==
    LET text == Flatten(q.text)
        first == CHOOSE k \in 1..Len(text) :
                    text[k].m = "Answer:" /\ \A j \in 1..(k - 1) : text[j].m # "Answer:"
        in_text == IF Has("Answer:", text)
                   THEN letters_in(SubSeq(text, first, Len(text)))
                   ELSE <<>>
        ks == {k \in 1..Len(q.content_items) :
                  /\ q.content_items[k].content # <<>>
                  /\ Upper(q.content_items[k].content[1].m) = "ANSWER:"}
        its == SelectSeqIdx(q.content_items, ks, 1)
    IN in_text \o Flatten([k \in 1..Len(its) |-> letters_in(its[k].content)])

RECURSIVE unique_answers(_, _)
\* lines 391-397: the answers without repetitions, in first-seen order
unique_answers(correct_answers, seen) ==
    IF correct_answers = <<>> THEN <<>>
    ELSE (IF Head(correct_answers) \in seen THEN <<>> ELSE <<Head(correct_answers)>>)
         \o unique_answers(Tail(correct_answers), seen \cup {Head(correct_answers)})

\* lines 369-399; q.type is the type after the update of the dispatcher
_extract_text_options(q) ==
    LET from_text == extract_options_from_text(q.text, q.type)
        in_text == from_text.options # <<>>
        options == IF in_text THEN from_text.options
                   ELSE _extract_options_from_content_items(q)
        correct_answers == IF in_text THEN from_text.correct_answers
                           ELSE _extract_answers_from_text(q)
    IN [options |-> options,
        extracted |-> correct_answers,
        correct_answers |-> unique_answers(correct_answers, {})]

\* process_questions, lines 25-48, for a question the factory hands to
\* TextBasedQuestion: Kind, the Number of each Choices element, and the
\* Choices of the Answer element (extracted: the answers before line 391)
text_based_result(q) ==
    LET q_type == updated_q_type(q)
        built == _extract_text_options([q EXCEPT !.type = q_type])
    IN [number |-> q.number,
        initial_type |-> q.type,
        Kind |-> get_xml_kind(q_type),
        Choices |-> built.options,
        extracted |-> built.extracted,
        Answer |-> built.correct_answers]

TextBasedIdle == tb_results = <<>>

(***************************************************************************)
(* Building a batch in any order: the iterations of the loop of            *)
(* process_questions (questions/question_processors.py) taken apart into   *)
(* the type update and the build of each question, and the sort of         *)
(* generate_xml_output (output/xml_generator.py) on the results in the     *)
(* order in which the builds ended.                                        *)
(***************************************************************************)
ParallelInit ==
    [stage |-> "collect", original |-> <<>>, questions |-> <<>>,
     updated |-> {}, order |-> <<>>, results |-> <<>>, output |-> <<>>]

\* lines 30-36 for the question at position k: its own dict gets the type
update_type(p, k) ==
    [p EXCEPT !.questions[k].type = updated_q_type(p.questions[k]),
              !.updated = @ \cup {k}]

\* lines 38-48 for the question at position k: its result is appended
build_question(p, k) ==
    [p EXCEPT !.results = process_question(@, p.questions[k], FALSE),
              !.order = Append(@, k)]

\* xml_generator.py lines 85-89: the results are sorted and their elements
\* appended to the testlet
assemble(results) ==
    LET rs == SortByKey(results, [k \in 1..Len(results) |-> ResultKey(results[k])])
    IN [k \in 1..Len(rs) |-> rs[k].element]

ParallelIdle == par_batch = ParallelInit

(***************************************************************************)
(* The grouping run: process_content_items consumes the extracted items    *)
(* one by one, then _finalize_processing; the grouped result is validated  *)
(* and, if valid, handed to generate_xml_output.                           *)
(***************************************************************************)
Img(p) == [path |-> p]

\* the paragraphs a document of the model is made of
Paragraphs ==
    {<<TokA("Topic", <<1>>), TokA(", Case Study", <<2>>)>>,
     <<Tok("TopicName:"), Tok("w")>>,
     <<Tok("CaseStudyStart:")>>,
     <<Tok("CaseStudyEnd:")>>,
     <<Tok("CaseStudyDetailsStart:")>>,
     <<Tok("CaseStudyDetailsEnd:")>>,
     <<Tok("Segment:"), Tok("S")>>,
     <<Tok("Title:"), Tok("T")>>,
     <<Tok("CaseStudyImage:")>>,
     <<TokA("QUESTION NO:", <<1>>), Tok("w")>>,
     <<TokA("QUESTION NO:", <<2>>), Tok("w")>>,
     <<TokA("question no:", <<1>>), Tok("w")>>,
     <<Tok("w")>>}

Units ==
    {[content |-> c, images |-> <<>>] : c \in Paragraphs}
    \cup {[content |-> <<Tok("w")>>, images |-> <<Img("p1")>>]}

NoItem == ContentItem(<<>>, <<>>, 0)

NoOutput == [raised |-> FALSE, testlets |-> <<>>]

NoRun == [kind |-> "none", outcome |-> "", valid |-> FALSE, built_origin |-> 0,
          shown |-> FALSE]

GrouperIdle ==
    /\ grouper = GrouperInit
    /\ pos = 0
    /\ item = NoItem
    /\ handled = ""
    /\ phase = "grouping"
    /\ xml_output = NoOutput

ClassifierIdle ==
    /\ cl_items = <<>>
    /\ cl_i = 0
    /\ current_type = None
    /\ image_types = NoImageTypes

ValidatorIdle ==
    /\ vq_questions = <<>>
    /\ all_valid = TRUE
    /\ error_messages = <<>>

DispatchIdle ==
    /\ pq_questions = <<>>
    /\ pq_fails = {}
    /\ pq_results = <<>>

AppIdle ==
    /\ session = SessionInit
    /\ run = 0
    /\ last_run = NoRun
    /\ failed_runs = {}

Init ==
    /\ GrouperIdle /\ ClassifierIdle /\ ValidatorIdle /\ DispatchIdle /\ AppIdle
    /\ RetryIdle /\ DropdownIdle /\ HotspotIdle /\ TextBasedIdle /\ ParallelIdle

ProcessItem ==
    /\ phase = "grouping"
    /\ pos < MaxItems
    /\ \E u \in Units :
          LET it == ContentItem(u.content, u.images, pos + 1)
              r == _process_single_item(grouper, it)
          IN /\ grouper' = r.g
             /\ item' = it
             /\ handled' = r.h
    /\ pos' = pos + 1
    /\ UNCHANGED <<phase, xml_output>>
    /\ UNCHANGED <<classifierVars, validatorVars, dispatchVars, appVars>>
    /\ UNCHANGED buildVars

FinalizeProcessing ==
    /\ phase = "grouping"
    /\ grouper' = _finalize_processing(grouper)
    /\ handled' = "finalize"
    /\ phase' = "grouped"
    /\ UNCHANGED <<pos, item, xml_output>>
    /\ UNCHANGED <<classifierVars, validatorVars, dispatchVars, appVars>>
    /\ UNCHANGED buildVars

\* the sets of start items whose question build raises that a run may meet
BuildFailures(n) == {{}} \cup {{k} : k \in 1..n}

\* app.main, lines 69-104 and 161-164: the grouped result passes both
\* validations, is stored, and generate_xml_output is called on it
GenerateXmlOutput ==
    /\ phase = "grouped"
    /\ validate_question_images(grouper.standalone_questions).valid
    /\ validate_case_study_questions(grouper.case_studies).valid
    /\ \E failing \in BuildFailures(pos) :
          xml_output' = generate_xml_output(grouper.standalone_questions,
                                            grouper.case_studies, failing)
    /\ handled' = "generate"
    /\ phase' = "generated"
    /\ UNCHANGED <<grouper, pos, item>>
    /\ UNCHANGED <<classifierVars, validatorVars, dispatchVars, appVars>>
    /\ UNCHANGED buildVars

Next == ProcessItem \/ FinalizeProcessing \/ GenerateXmlOutput

vars == <<grouper, pos, item, handled, phase, xml_output,
          cl_items, cl_i, current_type, image_types,
          vq_questions, all_valid, error_messages,
          pq_questions, pq_fails, pq_results,
          session, run, last_run, failed_runs,
          api_call, api_log, dd_build, hs_answers, tb_results,
          par_batch>>

Spec == Init /\ [][Next]_vars

(***************************************************************************)
(* The classifier run: identify_image_types scans the content items of one *)
(* question (its start item, then the items appended to it); cl_items is   *)
(* the part of the list scanned so far.                                    *)
(***************************************************************************)
ClParagraphs ==
    {<<Tok("QuestionOptionImage:")>>,
     <<Tok("AnswerOptionImage:")>>,
     <<Tok("QuestionDescriptionImage:")>>,
     <<Tok("JustDropDown:")>>,
     <<Tok("PositionedImage:")>>,
     <<Tok("BackgroundImage:")>>,
     <<Tok("JustCoordinates:")>>,
     <<Tok("AnswerOptionImage:"), Tok("QuestionOptionImage:")>>,
     <<Tok("QuestionOptionImage:"), Tok("AnswerOptionImage:")>>,
     <<Tok("w")>>}

ClUnits ==
    {[content |-> c, images |-> <<>>] : c \in ClParagraphs}
    \cup {[content |-> <<Tok("w")>>, images |-> <<Img(p)>>] : p \in ImagePaths}
    \cup {[content |-> <<Tok("QuestionOptionImage:")>>, images |-> <<Img("p1")>>],
          [content |-> <<Tok("QuestionOptionImage:"), Tok("AnswerOptionImage:")>>,
           images |-> <<Img("p2")>>]}

ClStartUnit == [content |-> <<TokA("QUESTION NO:", <<1>>), Tok("w")>>, images |-> <<>>]

InitClassifier == Init

\* one iteration of the loop over content_items: the next item of the
\* question (its start item first, then up to MaxClItems appended items)
IdentifyItem ==
    /\ cl_i < MaxClItems + 1
    /\ \E u \in (IF cl_i = 0 THEN {ClStartUnit} ELSE ClUnits) :
          LET it == ContentItem(u.content, u.images, cl_i + 1)
              r == identify_item(it, current_type, image_types)
          IN /\ cl_items' = Append(cl_items, it)
             /\ current_type' = r.current_type
             /\ image_types' = r.image_types
    /\ cl_i' = cl_i + 1
    /\ UNCHANGED <<grouperVars, validatorVars, dispatchVars, appVars>>
    /\ UNCHANGED buildVars

NextClassifier == IdentifyItem

SpecClassifier == InitClassifier /\ [][NextClassifier]_vars

(***************************************************************************)
(* The validator run: validate_question_images visits the questions of a   *)
(* list one by one; vq_questions is the part of the list visited so far.   *)
(***************************************************************************)
\* the type words a question start may carry ("w": no type word)
VqTypeWords ==
    {"HOTSPOT", "DRAGDROP", "DROPDOWN", "POSITIONEDDROPDOWN", "POSITIONEDDRAGDROP", "w"}

\* the paragraph that follows the question start
VqMarkerTexts ==
    {<<Tok("w")>>,
     <<Tok("QuestionOptionImage:")>>,
     <<Tok("AnswerOptionImage:")>>,
     <<Tok("QuestionOptionImage:"), Tok("AnswerOptionImage:")>>,
     <<Tok("BackgroundImage:")>>,
     <<Tok("PositionedImage:")>>,
     <<Tok("BackgroundImage:"), Tok("PositionedImage:")>>}

\* the question the grouper makes of a start paragraph with number n and
\* type word, followed by the paragraphs in more
QuestionOf(n, word, more) ==
    LET start == <<[content |-> <<TokA("QUESTION NO:", <<n>>), Tok(word)>>,
                    images |-> <<>>]>>
    IN process_content_items(Items(start \o more)).standalone_questions[1]

\* one iteration of the loop over the questions
ValidateQuestion ==
    /\ Len(vq_questions) < MaxVqQuestions
    /\ \E word \in VqTypeWords : \E text \in VqMarkerTexts :
          LET q == QuestionOf(Len(vq_questions) + 1, word,
                              <<[content |-> text, images |-> <<Img("p1")>>]>>)
              e == validate_question(q)
          IN /\ vq_questions' = Append(vq_questions, q)
             /\ error_messages' = error_messages \o e
             /\ all_valid' = (all_valid /\ e = <<>>)
    /\ UNCHANGED <<grouperVars, classifierVars, dispatchVars, appVars>>
    /\ UNCHANGED buildVars

NextValidator == ValidateQuestion

SpecValidator == Init /\ [][NextValidator]_vars

(***************************************************************************)
(* The dispatch run: process_questions visits the questions of a list one  *)
(* by one; pq_questions is the part of the list visited so far.            *)
(***************************************************************************)
\* what follows the start paragraph of a question
PqBodies ==
    {<<>>,
     <<[content |-> <<Tok("w")>>, images |-> <<Img("p1")>>]>>,
     <<[content |-> <<Tok("A."), Tok("x")>>, images |-> <<>>],
       [content |-> <<TokA("Answer:", <<1>>)>>, images |-> <<>>]>>,
     <<[content |-> <<Tok("A."), Tok("x")>>, images |-> <<>>],
       [content |-> <<TokA("Answer:", <<1, 2>>)>>, images |-> <<>>]>>,
     <<[content |-> <<Tok("x")>>, images |-> <<>>],
       [content |-> <<Tok("Explanation:"), Tok("x")>>, images |-> <<>>]>>}

PqTypeWords == {"HOTSPOT", "w"}

\* one iteration of the loop over the questions; raises: the build raises
ProcessQuestion ==
    /\ Len(pq_questions) < MaxPqQuestions
    /\ \E word \in PqTypeWords : \E body \in PqBodies : \E raises \in BOOLEAN :
          LET q == QuestionOf(Len(pq_questions) + 1, word, body)
          IN /\ pq_questions' = Append(pq_questions, q)
             /\ pq_fails' = IF raises THEN pq_fails \cup {Len(pq_questions) + 1}
                            ELSE pq_fails
             /\ pq_results' = process_question(pq_results, q, raises)
    /\ UNCHANGED <<grouperVars, classifierVars, validatorVars, appVars>>
    /\ UNCHANGED buildVars

NextDispatch == ProcessQuestion

SpecDispatch == Init /\ [][NextDispatch]_vars

(***************************************************************************)
(* The script runs of the app: every interaction reruns main on the        *)
(* session state the earlier runs left.                                    *)
(***************************************************************************)
AppUnit(content, images) == [content |-> content, images |-> images]

HotspotStart(n) == AppUnit(<<TokA("QUESTION NO:", <<n>>), Tok("HOTSPOT")>>, <<>>)
TextStart(n) == AppUnit(<<TokA("QUESTION NO:", <<n>>), Tok("w")>>, <<>>)
CaseStudyOpening ==
    <<AppUnit(<<TokA("Topic", <<1>>), TokA(", Case Study", <<2>>)>>, <<>>),
      AppUnit(<<Tok("CaseStudyStart:")>>, <<>>)>>

\* the documents a user may upload
AppDocs ==
    {<<TextStart(1)>>,
     <<HotspotStart(1), AppUnit(<<Tok("QuestionOptionImage:")>>, <<Img("p1")>>),
       AppUnit(<<Tok("AnswerOptionImage:")>>, <<Img("p2")>>)>>,
     <<HotspotStart(1), AppUnit(<<Tok("QuestionOptionImage:")>>, <<Img("p1")>>)>>,
     CaseStudyOpening \o <<TextStart(1), AppUnit(<<Tok("CaseStudyEnd:")>>, <<>>),
                           TextStart(2)>>,
     CaseStudyOpening \o <<HotspotStart(1), AppUnit(<<Tok("CaseStudyEnd:")>>, <<>>),
                           TextStart(2)>>,
     <<HotspotStart(2)>> \o CaseStudyOpening \o <<HotspotStart(1)>>}

\* a script run with the Process button clicked
ProcessRun ==
    /\ run < MaxRuns
    /\ \E doc \in AppDocs : \E extracted \in BOOLEAN : \E counted \in BOOLEAN :
          LET r == process_clicked(session, doc, run + 1, extracted, counted)
              g == process_content_items(Items(doc))
              valid == /\ validate_question_images(g.standalone_questions).valid
                       /\ validate_case_study_questions(g.case_studies).valid
          IN /\ session' = r.session
             /\ last_run' = [kind |-> "process",
                             outcome |-> r.outcome,
                             valid |-> extracted /\ valid,
                             built_origin |-> 0,
                             shown |-> r.outcome # "stopped"
                                       /\ r.session.processing_complete]
             /\ failed_runs' = IF extracted /\ ~valid THEN failed_runs \cup {run + 1}
                               ELSE failed_runs
    /\ run' = run + 1
    /\ UNCHANGED <<grouperVars, classifierVars, validatorVars, dispatchVars>>
    /\ UNCHANGED buildVars

\* a script run with the Generate XML button clicked; the button is there
\* only if the run before displayed the Generate XML section
GenerateRun ==
    /\ run < MaxRuns
    /\ last_run.shown
    /\ session.processing_complete
    /\ \E failing \in BuildFailures(MaxItems) :
          xml_output' = generate_clicked(session, failing)
    /\ last_run' = [kind |-> "generate", outcome |-> "generated", valid |-> FALSE,
                    built_origin |-> session.origin, shown |-> TRUE]
    /\ run' = run + 1
    /\ UNCHANGED <<session, failed_runs>>
    /\ UNCHANGED <<grouper, pos, item, handled, phase>>
    /\ UNCHANGED <<classifierVars, validatorVars, dispatchVars>>
    /\ UNCHANGED buildVars

\* a script run without a button click (a file was chosen or removed)
IdleRun ==
    /\ run < MaxRuns
    /\ last_run' = [kind |-> "idle", outcome |-> "", valid |-> FALSE,
                    built_origin |-> 0, shown |-> session.processing_complete]
    /\ run' = run + 1
    /\ UNCHANGED <<session, failed_runs>>
    /\ UNCHANGED <<grouperVars, classifierVars, validatorVars, dispatchVars>>
    /\ UNCHANGED buildVars

NextApp == ProcessRun \/ GenerateRun \/ IdleRun

SpecApp == Init /\ [][NextApp]_vars

(***************************************************************************)
(* Claims about the grouping state machine.                                *)
(***************************************************************************)
Last(s) == s[Len(s)]

CaseStudyOpen(g) == g.state.in_case_study /\ g.state.current_case_study # NoCaseStudy

\* number of questions held in the collections of the grouper
RECURSIVE SumQuestions(_)
SumQuestions(css) ==
    IF css = <<>> THEN 0 ELSE Len(Head(css).questions) + SumQuestions(Tail(css))

StoredQuestions(g) ==
    Len(g.standalone_questions) + SumQuestions(g.case_studies)
    + Len(g.state.current_case_study.questions)

\* C1: a question-start marker finalizes exactly the open question (none if
\* none is open): the question, with every content item appended to it, in
\* order, becomes the last element of its owning collection (the open case
\* study, else the standalone list) and nothing else is added anywhere.
C1_QuestionStartFinalizesOne ==
    [][(handled' = "question_start" /\ pos' = pos + 1) =>
        LET q == grouper.current_question
            g == grouper
            g2 == grouper'
        IN /\ g2.case_studies = g.case_studies
           /\ IF q = NoQuestion
              THEN /\ g2.standalone_questions = g.standalone_questions
                   /\ g2.state.current_case_study = g.state.current_case_study
              ELSE /\ StoredQuestions(g2) = StoredQuestions(g) + 1
                   /\ IF CaseStudyOpen(g)
                      THEN /\ g2.state.current_case_study.questions =
                                  Append(g.state.current_case_study.questions, q)
                           /\ g2.standalone_questions = g.standalone_questions
                      ELSE /\ g2.standalone_questions =
                                  Append(g.standalone_questions, q)
                           /\ g2.state.current_case_study = g.state.current_case_study
           /\ g2.current_question.content_items = <<item'>>]_vars

\* C1 witness: a question start has just superseded a question that had
\* content appended after its own start item
C1_Witness ==
    /\ handled = "question_start"
    /\ grouper.standalone_questions # <<>>
    /\ Len(Last(grouper.standalone_questions).content_items) >= 2
    /\ Last(Last(grouper.standalone_questions).content_items).idx = pos - 1

NoDuplicateNumbers(qs) ==
    \A i, j \in 1..Len(qs) : i # j => qs[i].number # qs[j].number

\* C2: no two questions of the standalone list, and no two questions nested
\* in one case study, share a number.
C2_UniqueNumbers ==
    /\ NoDuplicateNumbers(grouper.standalone_questions)
    /\ NoDuplicateNumbers(grouper.state.current_case_study.questions)
    /\ \A k \in 1..Len(grouper.case_studies) :
          NoDuplicateNumbers(grouper.case_studies[k].questions)

\* C3: at the end of the input the open question goes to the open case study
\* if there is one, else to the standalone list; the pending segment (named,
\* with entries) goes to the open case study; the open case study is added
\* to the case-study collection exactly once.
C3_EndOfInputFinalizesAll ==
    [][(phase = "grouping" /\ phase' = "grouped") =>
        LET g == grouper
            g2 == grouper'
            q == g.current_question
            cs == g.state.current_case_study
        IN IF cs # NoCaseStudy
           THEN /\ g2.case_studies # <<>>
                /\ SubSeq(g2.case_studies, 1, Len(g2.case_studies) - 1) = g.case_studies
                /\ Last(g2.case_studies).id = cs.id
                /\ Cardinality({k \in 1..Len(g2.case_studies) :
                                   g2.case_studies[k].id = cs.id}) = 1
                /\ Last(g2.case_studies).questions =
                       (IF q # NoQuestion /\ g.state.in_case_study
                        THEN Append(cs.questions, q) ELSE cs.questions)
                /\ Last(g2.case_studies).segments =
                       (IF g.state.current_segment_name # <<>>
                           /\ g.state.current_segment_contents # <<>>
                        THEN Append(cs.segments,
                                    [name |-> g.state.current_segment_name,
                                     contents |-> g.state.current_segment_contents])
                        ELSE cs.segments)
                /\ g2.standalone_questions =
                       (IF q # NoQuestion /\ ~g.state.in_case_study
                        THEN Append(g.standalone_questions, q)
                        ELSE g.standalone_questions)
           ELSE /\ g2.case_studies = g.case_studies
                /\ g2.standalone_questions =
                       (IF q # NoQuestion THEN Append(g.standalone_questions, q)
                        ELSE g.standalone_questions)]_vars

\* C3 witness: the input has ended with a question, a segment with entries
\* and a case study all open, and all three are in the result
C3_Witness ==
    /\ phase = "grouped"
    /\ grouper.current_question # NoQuestion
    /\ grouper.state.current_segment_name # <<>>
    /\ grouper.case_studies # <<>>
    /\ Last(grouper.case_studies).id = grouper.state.current_case_study.id
    /\ Last(grouper.case_studies).segments # <<>>
    /\ Last(grouper.case_studies).questions # <<>>
    /\ Last(Last(grouper.case_studies).questions) = grouper.current_question

\* C4: a case-study-end marker with no case study open changes nothing: the
\* recorded topic number, case number and topic name, the details flag, the
\* case-study-image flag, the open question and both collections stay as
\* they were.
C4_StrayEndIsNoOp ==
    [][(handled' = "case_study_end" /\ pos' = pos + 1
        /\ grouper.state.current_case_study = NoCaseStudy) =>
        /\ grouper'.case_studies = grouper.case_studies
        /\ grouper'.standalone_questions = grouper.standalone_questions
        /\ grouper'.current_question = grouper.current_question
        /\ grouper'.state.topic_number = grouper.state.topic_number
        /\ grouper'.state.case_study_number = grouper.state.case_study_number
        /\ grouper'.state.topic_name = grouper.state.topic_name
        /\ grouper'.state.in_case_study_details = grouper.state.in_case_study_details
        /\ grouper'.state.next_image_is_case_study =
               grouper.state.next_image_is_case_study]_vars

\* the <Question> elements of the document, in document order
RECURSIVE QuestionElements(_)
QuestionElements(testlets) ==
    IF testlets = <<>> THEN <<>>
    ELSE Head(testlets).questions \o QuestionElements(Tail(testlets))

\* the content items the text nodes of an element came from, in node order
TextNodeSources(e) ==
    LET ks == {k \in 1..Len(e.Contents) : e.Contents[k].ContentType = "Text"}
        ns == SelectSeqIdx(e.Contents, ks, 1)
    IN [k \in 1..Len(ns) |-> ns[k].idx]

RECURSIVE DocumentTextSources(_)
DocumentTextSources(es) ==
    IF es = <<>> THEN <<>>
    ELSE TextNodeSources(Head(es)) \o DocumentTextSources(Tail(es))

Increasing(s) == \A i, j \in 1..Len(s) : i < j => s[i] < s[j]

\* C5 as claimed: the text nodes of the output document are in the order of
\* the content units they came from; no stage reorders them.
C5_TextNodesInInputOrder ==
    phase = "generated" =>
        Increasing(DocumentTextSources(QuestionElements(xml_output.testlets)))

\* C5 amended: within every question element the text nodes are in the order
\* of the content units they came from; the question elements of a testlet
\* are in ascending order of their numbers, whatever their order in the input.
C5_TextNodesInOrderWithinQuestion ==
    phase = "generated" =>
        \A t \in 1..Len(xml_output.testlets) :
            LET es == xml_output.testlets[t].questions
            IN /\ \A k \in 1..Len(es) : Increasing(TextNodeSources(es[k]))
               /\ \A i, j \in 1..Len(es) :
                     i < j => IntOf(es[i].QuestionNo) <= IntOf(es[j].QuestionNo)

\* C5 witness: a document was generated in which a question element holds
\* two text nodes and stands before an element of a question that came
\* earlier in the input
C5_Witness ==
    /\ phase = "generated"
    /\ ~xml_output.raised
    /\ \E t \in 1..Len(xml_output.testlets) :
          LET es == xml_output.testlets[t].questions
          IN \E i, j \in 1..Len(es) :
                /\ i < j
                /\ Len(TextNodeSources(es[i])) >= 2
                /\ TextNodeSources(es[j]) # <<>>
                /\ TextNodeSources(es[j])[1] < TextNodeSources(es[i])[1]

(***************************************************************************)
(* Claims about the image classifier.                                      *)
(***************************************************************************)
RoleMarkers ==
    {"QuestionOptionImage:", "AnswerOptionImage:", "QuestionDescriptionImage:",
     "JustDropDown:", "PositionedImage:", "BackgroundImage:", "JustCoordinates:"}

RoleOfMarker(m) ==
    CASE m = "QuestionOptionImage:" -> "question"
      [] m = "AnswerOptionImage:" -> "answer"
      [] m = "QuestionDescriptionImage:" -> "description"
      [] m = "JustDropDown:" -> "justdropdown"
      [] m = "PositionedImage:" -> "positioned"
      [] m = "BackgroundImage:" -> "background"
      [] m = "JustCoordinates:" -> "just_coordinates"

\* the order in which the classifier tests the markers
CheckOrder ==
    <<"QuestionOptionImage:", "AnswerOptionImage:", "QuestionDescriptionImage:",
      "JustDropDown:", "PositionedImage:", "BackgroundImage:", "JustCoordinates:">>

HasRoleMarker(it) == \E k \in 1..Len(it.content) : it.content[k].m \in RoleMarkers

\* the marker of the item that comes last in the item's text
LastMarkerInText(it) ==
    LET ks == {k \in 1..Len(it.content) : it.content[k].m \in RoleMarkers}
    IN it.content[CHOOSE k \in ks : \A j \in ks : j <= k].m

\* the marker of the item that comes first in the classifier's check order
FirstMarkerInCheckOrder(it) ==
    LET ks == {k \in 1..Len(CheckOrder) : Has(CheckOrder[k], it.content)}
    IN CheckOrder[CHOOSE k \in ks : \A j \in ks : k <= j]

HasPath(it, p) == \E k \in 1..Len(it.images) : it.images[k].path = p

\* the last scanned item that carries an image with path p (0: none)
LastOccurrence(p) ==
    LET ks == {k \in 1..cl_i : HasPath(cl_items[k], p)}
    IN IF ks = {} THEN 0 ELSE CHOOSE k \in ks : \A j \in ks : j <= k

\* the last item at or before k that contains a role marker (0: none)
NearestMarkerItem(k) ==
    LET js == {j \in 1..k : HasRoleMarker(cl_items[j])}
    IN IF js = {} THEN 0 ELSE CHOOSE j \in js : \A i \in js : i <= j

\* C6 as claimed: every image has the role of the most recently seen role
\* marker, the marker that comes last in the text read so far, also when one
\* item holds several markers.
C6_MostRecentMarkerWins ==
    \A p \in ImagePaths :
        LET k == LastOccurrence(p)
            j == NearestMarkerItem(k)
        IN image_types[p] =
              (IF k = 0 \/ j = 0 THEN None
               ELSE RoleOfMarker(LastMarkerInText(cl_items[j])))

\* C6 amended: every image has the role set by the nearest item, at or before
\* its own, that contains a role marker (sticky across the items between);
\* when that item holds several markers the one first in the classifier's
\* fixed check order decides, not the one last in the text; a path that occurs
\* again takes the role of its last occurrence.
C6_NearestMarkerItemDecides ==
    /\ \A p \in ImagePaths :
          LET k == LastOccurrence(p)
              j == NearestMarkerItem(k)
          IN image_types[p] =
                (IF k = 0 \/ j = 0 THEN None
                 ELSE RoleOfMarker(FirstMarkerInCheckOrder(cl_items[j])))
    /\ current_type =
          (IF NearestMarkerItem(cl_i) = 0 THEN None
           ELSE RoleOfMarker(FirstMarkerInCheckOrder(cl_items[NearestMarkerItem(cl_i)])))

\* C6 witness: the scan is over and an image in an item without markers got
\* its role from an earlier item that holds two markers
C6_Witness ==
    /\ cl_i = MaxClItems + 1
    /\ \E k \in 1..cl_i : \E p \in ImagePaths :
          /\ HasPath(cl_items[k], p)
          /\ LastOccurrence(p) = k
          /\ ~HasRoleMarker(cl_items[k])
          /\ NearestMarkerItem(k) # 0
          /\ cl_items[NearestMarkerItem(k)].content =
                 <<Tok("QuestionOptionImage:"), Tok("AnswerOptionImage:")>>
          /\ image_types[p] = "question"

RoleVocabulary ==
    {"description", "question", "answer", "justdropdown", "positioned", "background"}

\* C7: every role the classifier assigns is one of description,
\* question-option, answer-option, just-dropdown, positioned, background.
C7_RolesInVocabulary ==
    \A p \in ImagePaths : image_types[p] # None => image_types[p] \in RoleVocabulary

(***************************************************************************)
(* Claims about the validator.                                             *)
(***************************************************************************)
\* the required-image table: the roles a type requires, each with its marker
RequiredRoles(q_type) ==
    CASE q_type \in {"HOTSPOT", "DRAGDROP", "DROPDOWN"} ->
           <<<<"QuestionOptionImage", "QuestionOptionImage:">>,
             <<"AnswerOptionImage", "AnswerOptionImage:">>>>
      [] q_type \in {"POSITIONEDDROPDOWN", "POSITIONEDDRAGDROP"} ->
           <<<<"BackgroundImage", "BackgroundImage:">>,
             <<"PositionedImage", "PositionedImage:">>>>
      [] OTHER -> <<>>

\* the (number, missing required role) pairs of one question
MissingRoles(q) ==
    LET req == RequiredRoles(q.type)
        miss == SelectSeqIdx(req, {k \in 1..Len(req) : ~MarkerPresent(q, req[k][2])}, 1)
    IN [k \in 1..Len(miss) |-> <<q.number, miss[k][1]>>]

RECURSIVE ExpectedViolations(_)
ExpectedViolations(qs) ==
    IF qs = <<>> THEN <<>> ELSE MissingRoles(Head(qs)) \o ExpectedViolations(Tail(qs))

\* C8: the validator reports invalid exactly when some question lacks a
\* marker its type requires, and the violation list holds exactly one entry
\* per (question, missing required role), in question order, each naming
\* the question's number and the missing role.
C8_OneEntryPerMissingRole ==
    /\ all_valid = (ExpectedViolations(vq_questions) = <<>>)
    /\ [k \in 1..Len(error_messages) |->
           <<error_messages[k].number, error_messages[k].missing>>]
       = ExpectedViolations(vq_questions)

C9_FailedValidationHaltsBeforeBuilding ==
    /\ [](/\ session.origin \notin failed_runs
          /\ last_run.built_origin \notin failed_runs
          /\ (last_run.kind = "process" /\ run \in failed_runs) =>
                (last_run.outcome = "stopped" /\ ~last_run.shown))
    /\ [][session'.processing_complete # session.processing_complete =>
            /\ session'.processing_complete
            /\ last_run'.kind = "process"
            /\ last_run'.valid
            /\ session'.origin = run']_vars

\* C9 witness: after a run that completed, a run failed its validation and
\* was stopped; the session still holds the questions of the earlier run
C9_Witness ==
    /\ last_run.kind = "process"
    /\ last_run.outcome = "stopped"
    /\ run \in failed_runs
    /\ session.processing_complete
    /\ session.origin # 0
    /\ session.origin < run

(***************************************************************************)
(* The vision-service run: calls are made one after the other, and each    *)
(* attempt of a call fails or succeeds as the service decides.             *)
(***************************************************************************)
CallKinds == {<<"gemini", TRUE>>, <<"gemini", FALSE>>, <<"claude", TRUE>>}

StartCall ==
    /\ api_call = NoCall
    /\ Len(api_log) < MaxCalls
    /\ \E k \in CallKinds : api_call' = NewCall(k[1], k[2])
    /\ UNCHANGED api_log
    /\ UNCHANGED <<pipelineVars, dropdownVars, hotspotVars, textBasedVars, parallelVars>>

\* an attempt that fails: the loop goes on
GeminiRetry ==
    /\ api_call.kind = "gemini"
    /\ api_call.status = "running"
    /\ api_call.retries < MAX_API_RETRIES
    /\ api_call' = gemini_attempt(api_call, "fail")
    /\ UNCHANGED api_log
    /\ UNCHANGED <<pipelineVars, dropdownVars, hotspotVars, textBasedVars, parallelVars>>

\* an attempt that succeeds: the call returns
GeminiReturn ==
    /\ api_call.kind = "gemini"
    /\ api_call.status = "running"
    /\ api_call.retries < MAX_API_RETRIES
    /\ \E r \in Responses :
          api_log' = Append(api_log, gemini_attempt(api_call, r))
    /\ api_call' = NoCall
    /\ UNCHANGED <<pipelineVars, dropdownVars, hotspotVars, textBasedVars, parallelVars>>

\* the loop condition is false: the call returns its default
GeminiExhausted ==
    /\ api_call.kind = "gemini"
    /\ api_call.status = "running"
    /\ ~(api_call.retries < MAX_API_RETRIES)
    /\ api_log' = Append(api_log, gemini_exhausted(api_call))
    /\ api_call' = NoCall
    /\ UNCHANGED <<pipelineVars, dropdownVars, hotspotVars, textBasedVars, parallelVars>>

ClaudeCall ==
    /\ api_call.kind = "claude"
    /\ api_call.status = "running"
    /\ \E o \in Outcomes :
          api_log' = Append(api_log, call_claude_api(api_call, o))
    /\ api_call' = NoCall
    /\ UNCHANGED <<pipelineVars, dropdownVars, hotspotVars, textBasedVars, parallelVars>>

NextRetry ==
    \/ StartCall
    \/ GeminiRetry
    \/ GeminiReturn
    \/ GeminiExhausted
    \/ ClaudeCall

SpecRetry == Init /\ [][NextRetry]_vars

(***************************************************************************)
(* Claims about the vision-service calls.                                  *)
(***************************************************************************)
AllFailed(c) == \A i \in 1..Len(c.outcomes) : c.outcomes[i] = "fail"

FirstSuccess(c) ==
    c.outcomes[CHOOSE i \in 1..Len(c.outcomes) :
                  /\ c.outcomes[i] # "fail"
                  /\ \A j \in 1..(i - 1) : c.outcomes[j] = "fail"]

DocumentedDefault(c) == IF c.structured THEN "[]" ELSE ""

\* C11: every call to the vision service that has ended made at most
\* MAX_API_RETRIES attempts, did not raise, returned the first successful
\* response when an attempt succeeded, and returned the documented default
\* (the empty list for a structured extractor, the empty text otherwise)
\* when every attempt failed.
C11_CallsEndWithResponseOrDefault ==
    \A n \in 1..Len(api_log) :
        LET c == api_log[n] IN
        /\ Len(c.outcomes) <= MAX_API_RETRIES
        /\ c.status = "returned"
        /\ c.result = IF AllFailed(c) THEN DocumentedDefault(c) ELSE FirstSuccess(c)

\* C12: the waits of a call that has ended lie between its attempts (none
\* follows the last attempt) and grow by a constant factor greater than one.
C12_ExponentialBackoffBetweenAttempts ==
    \A n \in 1..Len(api_log) :
        LET c == api_log[n] IN
        /\ Len(c.waits) <= Len(c.outcomes) - 1
        /\ \A i \in 1..(Len(c.waits) - 1) : c.waits[i + 1] > c.waits[i]
        /\ \A i \in 1..(Len(c.waits) - 2) :
              c.waits[i + 1] * c.waits[i + 1] = c.waits[i] * c.waits[i + 2]

(***************************************************************************)
(* The Dropdown build: one question whose images have any roles, and a     *)
(* vision service that fails or answers each attempt as it decides.        *)
(***************************************************************************)
DdRoles == {"question", "answer", "description"}
DdImages == UNION {[1..n -> DdRoles] : n \in 0..MaxDdImages}
Patterns == [1..MAX_API_RETRIES -> Outcomes]

DdStart ==
    /\ dd_build.stage = "idle"
    /\ \E images \in DdImages :
          LET cat == _get_categorized_images(images)
          IN  dd_build' = [dd_build EXCEPT !.stage = "questions",
                                           !.images = images,
                                           !.q_images = cat.q_images,
                                           !.a_images = cat.a_images]
    /\ UNCHANGED <<pipelineVars, retryVars, hotspotVars, textBasedVars, parallelVars>>

DdExtractQuestions ==
    /\ dd_build.stage = "questions"
    /\ \E pattern \in Patterns : dd_build' = extract_question_data(dd_build, pattern)
    /\ UNCHANGED <<pipelineVars, retryVars, hotspotVars, textBasedVars, parallelVars>>

DdExtractAnswers ==
    /\ dd_build.stage = "answers"
    /\ \E pattern \in Patterns : dd_build' = extract_answers_data(dd_build, pattern)
    /\ UNCHANGED <<pipelineVars, retryVars, hotspotVars, textBasedVars, parallelVars>>

DdExtractManually ==
    /\ dd_build.stage = "manual"
    /\ \E pattern \in Patterns : dd_build' = extract_answers_manually(dd_build, pattern)
    /\ UNCHANGED <<pipelineVars, retryVars, hotspotVars, textBasedVars, parallelVars>>

DdAddElements ==
    /\ dd_build.stage = "add"
    /\ \E pattern \in Patterns : dd_build' = add_dropdown_elements(dd_build, pattern)
    /\ UNCHANGED <<pipelineVars, retryVars, hotspotVars, textBasedVars, parallelVars>>

NextDropdown ==
    \/ DdStart
    \/ DdExtractQuestions
    \/ DdExtractAnswers
    \/ DdExtractManually
    \/ DdAddElements

SpecDropdown == Init /\ [][NextDropdown]_vars

AllCallsExhausted ==
    \A i \in 1..Len(dd_build.calls) : dd_build.calls[i].exhausted

\* C13: when every vision call made for a Dropdown question has exhausted
\* its retries, the build ends without raising, and the element is a
\* DropDown node whose option-set container and answers container are empty.
C13_ExhaustedDropdownIsEmptyNode ==
    (dd_build.stage = "built" /\ AllCallsExhausted) =>
        /\ ~dd_build.raised
        /\ dd_build.element.Kind = "DropDown"
        /\ dd_build.element.QuestionOptions = <<>>
        /\ dd_build.element.Answers = <<>>

\* a build with a question image and an answer image in which the question
\* call, the answer call and the text call of the answers all were exhausted
C13_Witness ==
    /\ dd_build.stage = "built"
    /\ dd_build.q_images # <<>>
    /\ dd_build.a_images # <<>>
    /\ Len(dd_build.calls) = 3
    /\ AllCallsExhausted

(***************************************************************************)
(* Claims about the order of the assembled document.                       *)
(***************************************************************************)
\* C14: for every list of case studies the grouper has produced, the
\* assembler sorts the case studies without raising, and
\* the case-study testlets of the document are in ascending order of
\* (topic number, case number), compared as integers.
C14_CaseStudySortCompletes ==
    phase = "generated" =>
        /\ ~CaseStudySortRaises(grouper.case_studies)
        /\ ~xml_output.raised =>
              LET sorted == SortByKey(grouper.case_studies,
                                [k \in 1..Len(grouper.case_studies) |->
                                    CaseStudyKey(grouper.case_studies[k])])
              IN \A k \in 1..Len(sorted) :
                    /\ xml_output.testlets[k].case_study.present
                    /\ xml_output.testlets[k].case_study.Number = sorted[k].topic_number
                    /\ k > 1 => ~KeyLess(CaseStudyKey(sorted[k]),
                                         CaseStudyKey(sorted[k - 1]))

\* the questions of a group and the elements of a testlet carry the same
\* numbers, each as often
SameNumbers(es, qs) ==
    /\ Len(es) = Len(qs)
    /\ \A i \in 1..Len(qs) :
          Cardinality({j \in 1..Len(es) : es[j].QuestionNo = qs[i].number})
            = Cardinality({j \in 1..Len(qs) : qs[j].number = qs[i].number})

AscendingNumbers(es) ==
    \A i, j \in 1..Len(es) : i < j => IntOf(es[i].QuestionNo) <= IntOf(es[j].QuestionNo)

\* C15: in every testlet of the document the question elements are those of
\* the questions of its group, in ascending numeric order of their numbers
\* whatever their order in the input; in a case-study testlet they all come
\* after the case-study element, and the standalone testlet holds only
\* question elements.
C15_QuestionsAscendingAfterMetadata ==
    (phase = "generated" /\ ~xml_output.raised) =>
        LET n == Len(grouper.case_studies)
            ts == xml_output.testlets
        IN /\ Len(ts) = n + (IF grouper.standalone_questions # <<>> THEN 1 ELSE 0)
           /\ \A t \in 1..Len(ts) :
                 /\ AscendingNumbers(ts[t].questions)
                 /\ t <= n =>
                       /\ ts[t].case_study.present
                       /\ ts[t].children[1] = "CaseStudy"
                       /\ \A k \in 2..Len(ts[t].children) : ts[t].children[k] = "Question"
                       /\ Len(ts[t].children) = 1 + Len(ts[t].questions)
                       /\ \E c \in 1..n :
                             /\ ts[t].case_study = build_xml_for_case_study(grouper.case_studies[c])
                             /\ SameNumbers(ts[t].questions, grouper.case_studies[c].questions)
                 /\ t > n =>
                       /\ ~ts[t].case_study.present
                       /\ \A k \in 1..Len(ts[t].children) : ts[t].children[k] = "Question"
                       /\ Len(ts[t].children) = Len(ts[t].questions)
                       /\ SameNumbers(ts[t].questions, grouper.standalone_questions)

\* a document with a case-study testlet whose first question element stems
\* from a later content unit than its second
C15_Witness ==
    /\ phase = "generated"
    /\ ~xml_output.raised
    /\ \E t \in 1..Len(xml_output.testlets) :
          LET es == xml_output.testlets[t].questions
          IN /\ xml_output.testlets[t].case_study.present
             /\ Len(es) >= 2
             /\ IntOf(es[1].QuestionNo) < IntOf(es[2].QuestionNo)
             /\ TextNodeSources(es[1]) # <<>>
             /\ TextNodeSources(es[2]) # <<>>
             /\ TextNodeSources(es[2])[1] < TextNodeSources(es[1])[1]

(***************************************************************************)
(* The Hotspot matching run: the option statements of a question, and      *)
(* answer items with any statement of up to MaxStmtLen characters.         *)
(***************************************************************************)
HsOptionLists ==
    {<<>>,
     <<<<"a", "a", "a", "b", "b">>>>,
     <<<<"a", "B">>, <<"a", "a", "B", "b">>>>,
     <<<<"B", "a", "a">>, <<"a", "a", "B">>>>,
     <<<<"b">>, <<"a", "b", "a", "b", "a">>>>,
     <<<<>>, <<"a">>>>}

HsLetters == {"a", "B"}
HsStatements == UNION {[1..n -> HsLetters] : n \in 0..MaxStmtLen}

HsStart ==
    /\ hs_answers.options = <<>>
    /\ hs_answers.offered = 0
    /\ \E options \in HsOptionLists :
          hs_answers' = [HotspotInit EXCEPT !.options = options]
    /\ UNCHANGED <<pipelineVars, retryVars, dropdownVars, textBasedVars, parallelVars>>

HsAddAnswer ==
    /\ hs_answers.offered < MaxHsAnswers
    /\ \E ans_stmt \in HsStatements :
          hs_answers' = add_answer_to_xml(hs_answers, ans_stmt)
    /\ UNCHANGED <<pipelineVars, retryVars, dropdownVars, textBasedVars, parallelVars>>

NextHotspot == HsStart \/ HsAddAnswer

SpecHotspot == Init /\ [][NextHotspot]_vars

(***************************************************************************)
(* Claims about the Hotspot answer matching.                               *)
(***************************************************************************)
Score(k) == ratio(lower(hs_answers.options[k]), lower(hs_answers.ans_stmt))

\* a candidate with the best score, the first of them in scan order
BestCandidate ==
    CHOOSE k \in 1..Len(hs_answers.options) :
        /\ \A j \in 1..Len(hs_answers.options) : ~Greater(Score(j), Score(k))
        /\ \A j \in 1..(k - 1) : Greater(Score(k), Score(j))

Threshold == [num |-> 3, den |-> 5]

TbLine(tokens) == [content |-> tokens, images |-> <<>>]

TbOptionLines ==
    {<<>>,
     <<TbLine(<<Tok("A."), Tok("x")>>), TbLine(<<Tok("B."), Tok("x")>>)>>,
     <<TbLine(<<Tok("A.x")>>), TbLine(<<Tok("B.x")>>)>>}

TbAnswerLines ==
    {<<>>,
     <<TbLine(<<TokA("Answer:", <<1>>)>>)>>,
     <<TbLine(<<TokA("Answer:", <<1, 2>>)>>)>>,
     <<TbLine(<<TokA("Answer:", <<2, 1, 2>>)>>)>>,
     <<TbLine(<<TokA("Answer:", <<1, 1>>)>>)>>,
     <<TbLine(<<TokA("Answer:", <<1>>), Tok("and"), Tok("B")>>)>>,
     <<TbLine(<<TokA("Answer:", <<2>>)>>),
       TbLine(<<Tok("Explanation:"), Tok("A"), Tok("x")>>)>>}

TbTypeWords == {"w", "RADIOBUTTON", "MULTIPLECHOICE"}

\* one iteration of the loop over the questions
TbProcessQuestion ==
    /\ Len(tb_results) < MaxTbQuestions
    /\ \E word \in TbTypeWords : \E os \in TbOptionLines : \E as \in TbAnswerLines :
          LET q == QuestionOf(Len(tb_results) + 1, word, os \o as)
          IN tb_results' = Append(tb_results, text_based_result(q))
    /\ UNCHANGED <<pipelineVars, retryVars, dropdownVars, hotspotVars, parallelVars>>

NextTextBased == TbProcessQuestion

SpecTextBased == Init /\ [][NextTextBased]_vars

(***************************************************************************)
(* Claims about the text-based builder.                                    *)
(***************************************************************************)
NoRepetition(s) == \A i, j \in 1..Len(s) : s[i] = s[j] => i = j

\* the positions of the first occurrences in s
FirstSeen(s) == {i \in 1..Len(s) : \A j \in 1..(i - 1) : s[j] # s[i]}

\* C17: the Answer of a text-based question holds each extracted answer
\* letter once, in the order in which the letters were first seen, and the
\* Kind is MultipleChoice whenever more than one answer letter was extracted.
C17_DedupedAnswersAndMultiChoice ==
    \A n \in 1..Len(tb_results) :
        LET r == tb_results[n] IN
        /\ NoRepetition(r.Answer)
        /\ r.Answer = SelectSeqIdx(r.extracted, FirstSeen(r.extracted), 1)
        /\ Len(r.Answer) > 1 => r.Kind = "MultipleChoice"

(***************************************************************************)
(* The batch run: up to MaxParQuestions questions with any numbers are     *)
(* collected, their type updates and builds run in any order, and the      *)
(* results are assembled when all builds have ended.                       *)
(***************************************************************************)
ParNumbers == {1, 2}

ParBodies ==
    {<<>>,
     <<[content |-> <<Tok("w")>>, images |-> <<Img("p1")>>]>>,
     <<[content |-> <<Tok("A."), Tok("x")>>, images |-> <<>>],
       [content |-> <<TokA("Answer:", <<1, 2>>)>>, images |-> <<>>]>>}

ParAddQuestion ==
    /\ par_batch.stage = "collect"
    /\ Len(par_batch.questions) < MaxParQuestions
    /\ \E n \in ParNumbers : \E body \in ParBodies :
          LET q == QuestionOf(n, "w", body)
          IN par_batch' = [par_batch EXCEPT !.original = Append(@, q),
                                            !.questions = Append(@, q)]
    /\ UNCHANGED <<pipelineVars, retryVars, dropdownVars, hotspotVars, textBasedVars>>

ParStartBuilds ==
    /\ par_batch.stage = "collect"
    /\ par_batch.questions # <<>>
    /\ par_batch' = [par_batch EXCEPT !.stage = "build"]
    /\ UNCHANGED <<pipelineVars, retryVars, dropdownVars, hotspotVars, textBasedVars>>

ParUpdateType ==
    /\ par_batch.stage = "build"
    /\ \E k \in 1..Len(par_batch.questions) :
          /\ k \notin par_batch.updated
          /\ par_batch' = update_type(par_batch, k)
    /\ UNCHANGED <<pipelineVars, retryVars, dropdownVars, hotspotVars, textBasedVars>>

ParBuildQuestion ==
    /\ par_batch.stage = "build"
    /\ \E k \in par_batch.updated :
          /\ \A i \in 1..Len(par_batch.order) : par_batch.order[i] # k
          /\ par_batch' = build_question(par_batch, k)
    /\ UNCHANGED <<pipelineVars, retryVars, dropdownVars, hotspotVars, textBasedVars>>

ParAssemble ==
    /\ par_batch.stage = "build"
    /\ Len(par_batch.order) = Len(par_batch.questions)
    /\ par_batch' = [par_batch EXCEPT !.stage = "done",
                                      !.output = assemble(par_batch.results)]
    /\ UNCHANGED <<pipelineVars, retryVars, dropdownVars, hotspotVars, textBasedVars>>

NextParallel ==
    \/ ParAddQuestion
    \/ ParStartBuilds
    \/ ParUpdateType
    \/ ParBuildQuestion
    \/ ParAssemble

SpecParallel == Init /\ [][NextParallel]_vars

(***************************************************************************)
(* Claims about the order of building.                                     *)
(***************************************************************************)
\* the elements of the batch built one after the other in input order
SequentialOutput == assemble(process_questions(par_batch.original, {}))

\* a build touches the dict of its own question only, and only its type
OwnStateOnly ==
    /\ Len(par_batch.questions) = Len(par_batch.original)
    /\ \A k \in 1..Len(par_batch.questions) :
          par_batch.questions[k] =
              IF k \in par_batch.updated
              THEN [par_batch.original[k] EXCEPT !.type = updated_q_type(par_batch.original[k])]
              ELSE par_batch.original[k]

DistinctNumbers ==
    \A i, j \in 1..Len(par_batch.original) :
        par_batch.original[i].number = par_batch.original[j].number => i = j

C19_ExactCaseMarkerOpensQuestion ==
    (phase = "grouping" /\ handled = "question_start") =>
        Has("QUESTION NO:", item.content)

\* C19 amended: a content unit opens a new question exactly if its text
\* contains QUESTION NO: in any case and no case-study marker handler has
\* taken the unit; the open question is then finalized and replaced by the
\* question made from the unit.
C19_AnyCaseMarkerOpensQuestion ==
    [][(phase = "grouping" /\ pos' = pos + 1) =>
          /\ handled' = "question_start" <=>
                /\ HasUpper("QUESTION NO:", item'.content)
                /\ _handle_case_study_markers(grouper, item').h = ""
          /\ handled' = "question_start" =>
                grouper' = [_finalize_current_question(grouper) EXCEPT
                               !.current_question = _create_question_from_item(item')]
      ]_vars

\* a unit with the marker in lower case has finalized the open question and
\* opened a new one
C19_Witness ==
    /\ phase = "grouping"
    /\ handled = "question_start"
    /\ Has("question no:", item.content)
    /\ grouper.current_question.content_items = <<item>>
    /\ grouper.standalone_questions # <<>>

(***************************************************************************)
(* The case-study run: process_content_items on documents made of the      *)
(* paragraphs of a case study, long enough for a case study with a         *)
(* segment and a question to be closed by its end marker.                  *)
(***************************************************************************)
CsUnits ==
    {[content |-> c, images |-> <<>>] :
        c \in {<<TokA("Topic", <<1>>), TokA(", Case Study", <<2>>)>>,
               <<Tok("CaseStudyStart:")>>,
               <<Tok("CaseStudyEnd:")>>,
               <<Tok("CaseStudyDetailsStart:")>>,
               <<Tok("Segment:"), Tok("S")>>,
               <<TokA("QUESTION NO:", <<1>>), Tok("w")>>,
               <<Tok("w")>>}}

\* one iteration of the loop of process_content_items
ProcessCsItem ==
    /\ phase = "grouping"
    /\ pos < MaxCsItems
    /\ \E u \in CsUnits :
          LET it == ContentItem(u.content, u.images, pos + 1)
              r == _process_single_item(grouper, it)
          IN /\ item' = it
             /\ grouper' = r.g
             /\ handled' = r.h
    /\ pos' = pos + 1
    /\ UNCHANGED <<phase, xml_output>>
    /\ UNCHANGED <<classifierVars, validatorVars, dispatchVars, appVars>>
    /\ UNCHANGED buildVars

NextCaseStudy == ProcessCsItem

SpecCaseStudy == Init /\ [][NextCaseStudy]_vars

\* C20: a case-study-end marker that is processed while a case study is
\* open appends the open question to the questions of that case study unless
\* one of them has its number, closes the question, appends the pending
\* segment if it has a name and contents, appends the case study to the
\* case-study collection once, and leaves the case-study state cleared.
C20_CaseStudyEndClosesCaseStudy ==
    [][(/\ phase = "grouping"
        /\ pos' = pos + 1
        /\ handled' = "case_study_end"
        /\ grouper.state.current_case_study # NoCaseStudy) =>
          LET s == grouper.state
              cs == s.current_case_study
              q == grouper.current_question
              questions ==
                  IF q # NoQuestion
                     /\ \A k \in 1..Len(cs.questions) : cs.questions[k].number # q.number
                  THEN Append(cs.questions, q)
                  ELSE cs.questions
              segments ==
                  IF s.current_segment_name # <<>> /\ s.current_segment_contents # <<>>
                  THEN Append(cs.segments, [name |-> s.current_segment_name,
                                            contents |-> s.current_segment_contents])
                  ELSE cs.segments
          IN /\ grouper'.current_question = NoQuestion
             /\ grouper'.case_studies =
                    Append(grouper.case_studies,
                           [cs EXCEPT !.questions = questions, !.segments = segments])
             /\ grouper'.standalone_questions = grouper.standalone_questions
             /\ grouper'.state.topic_number = <<>>
             /\ grouper'.state.case_study_number = <<>>
             /\ grouper'.state.topic_name = <<>>
             /\ grouper'.state.current_case_study = NoCaseStudy
             /\ grouper'.state.current_segment_name = <<>>
             /\ grouper'.state.current_segment_contents = <<>>
             /\ ~grouper'.state.in_case_study
             /\ ~grouper'.state.in_case_study_details
             /\ ~grouper'.state.next_image_is_case_study
      ]_vars

\* an end marker has closed a case study that had a topic number, and the
\* case study was appended with its open question and its pending segment
C20_Witness ==
    /\ phase = "grouping"
    /\ handled = "case_study_end"
    /\ grouper.case_studies # <<>>
    /\ Last(grouper.case_studies).topic_number # <<>>
    /\ Last(grouper.case_studies).questions # <<>>
    /\ Last(grouper.case_studies).segments # <<>>
    /\ grouper.current_question = NoQuestion
    /\ grouper.state = CaseStudyStateInit

(***************************************************************************)
(* The priority run: process_content_items on documents whose paragraphs   *)
(* may hold several markers at once, the marker of lower priority written  *)
(* first in the paragraph.                                                 *)
(***************************************************************************)
PrUnits ==
    {[content |-> c, images |-> <<>>] :
        c \in {<<Tok("CaseStudyStart:")>>,
               <<Tok("CaseStudyDetailsStart:")>>,
               <<Tok("Segment:"), Tok("S")>>,
               <<TokA("QUESTION NO:", <<1>>), Tok("w")>>,
               <<Tok("w")>>,
               <<TokA("QUESTION NO:", <<2>>), TokA("Topic", <<1>>),
                 TokA(", Case Study", <<2>>)>>,
               <<Tok("CaseStudyStart:"), Tok("TopicName:"), Tok("w")>>,
               <<Tok("CaseStudyEnd:"), Tok("CaseStudyStart:")>>,
               <<Tok("CaseStudyDetailsStart:"), Tok("CaseStudyEnd:")>>,
               <<Tok("CaseStudyDetailsEnd:"), Tok("CaseStudyDetailsStart:")>>,
               <<Tok("Segment:"), Tok("S"), Tok("CaseStudyDetailsEnd:")>>,
               <<TokA("QUESTION NO:", <<2>>), Tok("Title:"), Tok("Segment:"),
                 Tok("S")>>,
               <<Tok("CaseStudyImage:"), Tok("Title:"), Tok("T")>>,
               <<TokA("QUESTION NO:", <<2>>), Tok("CaseStudyImage:")>>}}

\* one iteration of the loop of process_content_items
ProcessPrItem ==
    /\ phase = "grouping"
    /\ pos < MaxPrItems
    /\ \E u \in PrUnits :
          LET it == ContentItem(u.content, u.images, pos + 1)
              r == _process_single_item(grouper, it)
          IN /\ item' = it
             /\ grouper' = r.g
             /\ handled' = r.h
    /\ pos' = pos + 1
    /\ UNCHANGED <<phase, xml_output>>
    /\ UNCHANGED <<classifierVars, validatorVars, dispatchVars, appVars>>
    /\ UNCHANGED buildVars

NextPriority == ProcessPrItem

SpecPriority == Init /\ [][NextPriority]_vars

\* the transitions in their priority order, the default excluded
MarkerOrder ==
    <<"topic_case", "topic_name", "case_study_start", "case_study_end",
      "details_start", "details_end", "segment", "title", "case_study_image",
      "question_start">>

DefaultTransitions ==
    {"case_study_images", "details_content", "question_content", "ignored"}

\* the unit it matches the marker of transition b in the state of grouper g
MatchesMarker(b, g, it) ==
    LET open == g.state.in_case_study_details
                /\ g.state.current_case_study # NoCaseStudy
    IN CASE b = "topic_case" ->
               \E i \in 1..(Len(it.content) - 1) :
                   /\ it.content[i].m = "Topic" /\ it.content[i].arg # <<>>
                   /\ it.content[i + 1].m = ", Case Study"
                   /\ it.content[i + 1].arg # <<>>
         [] b = "topic_name" -> Has("TopicName:", it.content)
         [] b = "case_study_start" -> Has("CaseStudyStart:", it.content)
         [] b = "case_study_end" -> Has("CaseStudyEnd:", it.content)
         [] b = "details_start" -> Has("CaseStudyDetailsStart:", it.content)
         [] b = "details_end" -> Has("CaseStudyDetailsEnd:", it.content)
         [] b = "segment" -> open /\ Has("Segment:", it.content)
         [] b = "title" -> /\ open /\ Has("Title:", it.content)
                           /\ g.state.current_segment_name # <<>>
         [] b = "case_study_image" -> Has("CaseStudyImage:", it.content)
         [] b = "question_start" -> HasUpper("QUESTION NO:", it.content)

MatchingRanks(g, it) ==
    {k \in 1..Len(MarkerOrder) : MatchesMarker(MarkerOrder[k], g, it)}

\* C21: each unit triggers exactly one transition, the first that matches
\* in the priority order (the default if none matches); a unit taken by a
\* marker above the question start opens no question and is appended neither
\* to the open question nor, as a Text entry, to the open segment, and a
\* unit taken by the question start is not appended to the open segment.
C21_FirstMatchingTransitionOnly ==
    [][(phase = "grouping" /\ pos' = pos + 1) =>
          LET ranks == MatchingRanks(grouper, item')
              first == CHOOSE k \in ranks : \A j \in ranks : k <= j
              contents == grouper.state.current_segment_contents
              contents_after == grouper'.state.current_segment_contents
          IN /\ ranks = {} => handled' \in DefaultTransitions
             /\ ranks # {} => handled' = MarkerOrder[first]
             /\ (ranks # {} /\ first < Len(MarkerOrder)) =>
                   /\ grouper'.current_question \in
                          {grouper.current_question, NoQuestion}
                   /\ item' \notin Range(grouper'.current_question.content_items)
                   /\ \/ contents_after \in {contents, <<>>}
                      \/ /\ handled' = "title"
                         /\ contents_after =
                                Append(contents,
                                       TitleEntry(After("Title:", item'.content)))
             /\ (ranks # {} /\ first = Len(MarkerOrder)) =>
                   /\ grouper'.current_question.content_items = <<item'>>
                   /\ grouper'.state = grouper.state
                      \/ /\ grouper'.state.current_segment_contents = contents
                         /\ grouper'.state.current_case_study.questions =
                                Append(grouper.state.current_case_study.questions,
                                       grouper.current_question)
      ]_vars

\* a unit that holds a question-start marker after a marker of higher
\* priority was handled while a question was open: the question is still the
\* open one and the unit is not among its content items
C21_Witness ==
    /\ phase = "grouping"
    /\ handled \in {"topic_case", "case_study_image", "segment"}
    /\ HasUpper("QUESTION NO:", item.content)
    /\ grouper.current_question # NoQuestion
    /\ item \notin Range(grouper.current_question.content_items)

(***************************************************************************)
(* The content run: process_content_items on documents whose paragraphs    *)
(* carry images, among them a paragraph that is nothing but an image.      *)
(***************************************************************************)
CtUnits ==
    {[content |-> <<Tok("CaseStudyStart:")>>, images |-> <<>>],
     [content |-> <<Tok("CaseStudyDetailsStart:")>>, images |-> <<>>],
     [content |-> <<Tok("CaseStudyDetailsEnd:")>>, images |-> <<>>],
     [content |-> <<Tok("Segment:"), Tok("S")>>, images |-> <<>>],
     [content |-> <<Tok("CaseStudyImage:")>>, images |-> <<>>],
     [content |-> <<TokA("QUESTION NO:", <<1>>), Tok("w")>>,
      images |-> <<Img("p3")>>],
     [content |-> <<Tok("w")>>, images |-> <<>>],
     [content |-> <<Tok("w")>>, images |-> <<Img("p1")>>],
     [content |-> <<>>, images |-> <<Img("p2")>>]}

\* one iteration of the loop of process_content_items
ProcessCtItem ==
    /\ phase = "grouping"
    /\ pos < MaxCtItems
    /\ \E u \in CtUnits :
          LET it == ContentItem(u.content, u.images, pos + 1)
              r == _process_single_item(grouper, it)
          IN /\ item' = it
             /\ grouper' = r.g
             /\ handled' = r.h
    /\ pos' = pos + 1
    /\ UNCHANGED <<phase, xml_output>>
    /\ UNCHANGED <<classifierVars, validatorVars, dispatchVars, appVars>>
    /\ UNCHANGED buildVars

NextContent == ProcessCtItem

SpecContent == Init /\ [][NextContent]_vars

\* the open question after the unit it was appended to it
WithUnit(q, it) ==
    [q EXCEPT !.content_items = Append(@, it),
              !.text = Append(@, it.content),
              !.images = @ \o it.images]

\* the case-study content step takes the unit it in the state of grouper g
TakenAsCaseStudyContent(g, it) ==
    \/ /\ g.state.next_image_is_case_study
       /\ it.images # <<>>
       /\ g.state.current_case_study # NoCaseStudy
    \/ /\ g.state.in_case_study_details
       /\ g.state.current_case_study # NoCaseStudy
       /\ g.state.current_segment_name # <<>> \/ it.content # <<>>

\* C22 as claimed: a unit that matches no marker and arrives while a question
\* is open is appended to that question, in every state of the machine.
C22_UnmarkedUnitAlwaysJoinsQuestion ==
    [][(/\ phase = "grouping"
        /\ pos' = pos + 1
        /\ MatchingRanks(grouper, item') = {}
        /\ grouper.current_question # NoQuestion) =>
          grouper'.current_question = WithUnit(grouper.current_question, item')
      ]_vars

\* C22: a unit that matches no marker and arrives while a question is open
\* is appended to that question, text and images, and nothing else changes,
\* unless the case-study content step takes it (its images are awaited by
\* the open case study, or the details of an open case study are being read
\* and the unit has text or a segment is open): then the open question is
\* left as it was.
C22_UnmarkedUnitJoinsQuestionUnlessTaken ==
    [][(/\ phase = "grouping"
        /\ pos' = pos + 1
        /\ MatchingRanks(grouper, item') = {}
        /\ grouper.current_question # NoQuestion) =>
          IF TakenAsCaseStudyContent(grouper, item')
          THEN /\ grouper'.current_question = grouper.current_question
               /\ handled' \in {"case_study_images", "details_content"}
          ELSE /\ grouper' = [grouper EXCEPT !.current_question =
                                  WithUnit(grouper.current_question, item')]
               /\ handled' = "question_content"
      ]_vars

\* a paragraph that is nothing but an image arrived while a question was
\* open in the details of an open case study before any segment, and was
\* appended to the question
C22_Witness ==
    /\ phase = "grouping"
    /\ handled = "question_content"
    /\ grouper.state.in_case_study_details
    /\ grouper.state.current_case_study # NoCaseStudy
    /\ item.content = <<>>
    /\ Len(grouper.current_question.content_items) >= 2
    /\ Last(grouper.current_question.content_items) = item
    /\ Last(grouper.current_question.images) = item.images[1]

(***************************************************************************)
(* The segment run: process_content_items on documents made of case-study  *)
(* openings, two segment headings and text, long enough for two segments   *)
(* to be appended to a case study.                                         *)
(***************************************************************************)
SgUnits ==
    {[content |-> c, images |-> <<>>] :
        c \in {<<Tok("CaseStudyStart:")>>,
               <<Tok("CaseStudyDetailsStart:")>>,
               <<Tok("Segment:"), Tok("S")>>,
               <<Tok("Segment:"), Tok("T")>>,
               <<Tok("Segment:")>>,
               <<Tok("Title:"), Tok("T")>>,
               <<Tok("CaseStudyDetailsEnd:")>>,
               <<Tok("w")>>}}

\* one iteration of the loop of process_content_items
ProcessSgItem ==
    /\ phase = "grouping"
    /\ pos < MaxSgItems
    /\ \E u \in SgUnits :
          LET it == ContentItem(u.content, u.images, pos + 1)
              r == _process_single_item(grouper, it)
          IN /\ item' = it
             /\ grouper' = r.g
             /\ handled' = r.h
    /\ pos' = pos + 1
    /\ UNCHANGED <<phase, xml_output>>
    /\ UNCHANGED <<classifierVars, validatorVars, dispatchVars, appVars>>
    /\ UNCHANGED buildVars

NextSegment == ProcessSgItem

SpecSegment == Init /\ [][NextSegment]_vars

\* the segment that is open in state s, as it would be stored
OpenSegment(s) ==
    [name |-> s.current_segment_name, contents |-> s.current_segment_contents]

\* C23: a segment heading is acted on only while the details flag is set and
\* a case study is open (anywhere else the unit leaves the case-study state
\* alone); it then appends the open segment to the case study if that
\* segment has a name and at least one entry, and opens the segment named by
\* the marker's argument with no entries. The segment list of a case study
\* only ever grows at its end, by the one segment that was open.
C23_HeadingClosesAndOpensSegment ==
    [][(phase = "grouping" /\ pos' = pos + 1) =>
          LET s == grouper.state
              t == grouper'.state
              in_details == s.in_case_study_details
                            /\ s.current_case_study # NoCaseStudy
              complete == s.current_segment_name # <<>>
                          /\ s.current_segment_contents # <<>>
          IN /\ handled' = "segment" =>
                   in_details /\ Has("Segment:", item'.content)
             /\ (Has("Segment:", item'.content) /\ ~in_details) => t = s
             /\ (Has("Segment:", item'.content) /\ in_details) =>
                   /\ handled' = "segment"
                   /\ t.current_segment_name = After("Segment:", item'.content)
                   /\ t.current_segment_contents =
                          IF complete THEN <<>> ELSE s.current_segment_contents
                   /\ t.current_case_study =
                          IF complete
                          THEN [s.current_case_study EXCEPT
                                   !.segments = Append(@, OpenSegment(s))]
                          ELSE s.current_case_study
             /\ t.current_case_study.id = s.current_case_study.id =>
                   t.current_case_study.segments \in
                       {s.current_case_study.segments,
                        Append(s.current_case_study.segments, OpenSegment(s))}
      ]_vars

\* two headings closed two segments of the open case study: the list holds
\* them in the order of their headings, and a third segment is open
C23_Witness ==
    /\ phase = "grouping"
    /\ handled = "segment"
    /\ Len(grouper.state.current_case_study.segments) = 2
    /\ grouper.state.current_case_study.segments[1].name = <<Tok("S")>>
    /\ grouper.state.current_case_study.segments[2].name = <<Tok("T")>>
    /\ grouper.state.current_segment_name = <<Tok("S")>>
    /\ grouper.state.current_segment_contents = <<>>

\* the unit it is image-bearing, matches no marker and arrives while the
\* case-study-image flag is set and a case study is open
AwaitedImageUnit(g, it) ==
    /\ g.state.next_image_is_case_study
    /\ it.images # <<>>
    /\ g.state.current_case_study # NoCaseStudy
    /\ MatchingRanks(g, it) = {}

\* C24 as claimed: once the case-study-image marker has set the flag, the
\* images of the next image-bearing unit are added to the images of the
\* open case study and the flag is cleared.
C24_NextImageUnitGoesToCaseStudy ==
    [][(/\ phase = "grouping"
        /\ pos' = pos + 1
        /\ grouper.state.next_image_is_case_study
        /\ item'.images # <<>>
        /\ grouper.state.current_case_study # NoCaseStudy) =>
          /\ grouper'.state.current_case_study.images =
                 grouper.state.current_case_study.images \o item'.images
          /\ ~grouper'.state.next_image_is_case_study
      ]_vars

\* C24: the case-study-image marker sets a flag and changes nothing else.
\* The first image-bearing unit that matches no marker and arrives while the
\* flag is set and a case study is open has its images added to the images
\* of that case study and, inside the details with a segment open, appended
\* as Image entries to the segment; the flag is cleared and the open question
\* does not get the unit. The flag is set by nothing else, and it is also
\* cleared by a details-end or case-study-end marker; the images of a case
\* study change in no other step.
C24_FlagConsumedByNextUnmarkedImageUnit ==
    [][(phase = "grouping" /\ pos' = pos + 1) =>
          LET s == grouper.state
              t == grouper'.state
              entries == [k \in 1..Len(item'.images) |-> ImageEntry(item'.images[k])]
          IN /\ handled' = "case_study_image" =>
                   t = [s EXCEPT !.next_image_is_case_study = TRUE]
             /\ AwaitedImageUnit(grouper, item') =>
                   /\ handled' = "case_study_images"
                   /\ t.current_case_study =
                          [s.current_case_study EXCEPT !.images = @ \o item'.images]
                   /\ t.current_segment_contents =
                          IF s.in_case_study_details /\ s.current_segment_name # <<>>
                          THEN s.current_segment_contents \o entries
                          ELSE s.current_segment_contents
                   /\ ~t.next_image_is_case_study
                   /\ grouper'.current_question = grouper.current_question
             /\ (s.next_image_is_case_study /\ ~AwaitedImageUnit(grouper, item')) =>
                   (t.next_image_is_case_study <=>
                        handled' \notin {"details_end", "case_study_end"})
             /\ ~s.next_image_is_case_study =>
                   (t.next_image_is_case_study <=> handled' = "case_study_image")
             /\ (/\ t.current_case_study.id = s.current_case_study.id
                 /\ ~AwaitedImageUnit(grouper, item')) =>
                   t.current_case_study.images = s.current_case_study.images
      ]_vars

\* an image-bearing unit arrived inside an open segment while the flag was
\* set: its image is the last of the case study's images and the last entry
\* of the segment, and the flag is cleared
C24_Witness ==
    /\ phase = "grouping"
    /\ handled = "case_study_images"
    /\ ~grouper.state.next_image_is_case_study
    /\ grouper.state.current_segment_contents # <<>>
    /\ Last(grouper.state.current_segment_contents) = ImageEntry(item.images[1])
    /\ Last(grouper.state.current_case_study.images) = item.images[1]
    /\ item \notin Range(grouper.current_question.content_items)

\* C25: every (statement, answer) pair obtained from the answer image yields
\* exactly one Answer node, for every candidate list obtained from the
\* question image, the empty list included.
C25_EveryPairYieldsOneAnswer ==
    hs_answers.emitted = hs_answers.offered

(***************************************************************************)
(* The type-cue run: process_content_items on documents whose question     *)
(* paragraphs are followed by description paragraphs with type wording.    *)
(***************************************************************************)
TcUnits ==
    {[content |-> c, images |-> <<>>] :
        c \in {<<TokA("QUESTION NO:", <<1>>), Tok("w")>>,
               <<TokA("QUESTION NO:", <<2>>), Tok("Hotspot")>>,
               <<TokA("QUESTION NO:", <<3>>)>>,
               <<Tok("hot spot"), Tok("w")>>,
               <<Tok("drag"), Tok("w"), Tok("drop")>>,
               <<Tok("w")>>}}

\* one iteration of the loop of process_content_items
ProcessTcItem ==
    /\ phase = "grouping"
    /\ pos < MaxTcItems
    /\ \E u \in TcUnits :
          LET it == ContentItem(u.content, u.images, pos + 1)
              r == _process_single_item(grouper, it)
          IN /\ item' = it
             /\ grouper' = r.g
             /\ handled' = r.h
    /\ pos' = pos + 1
    /\ UNCHANGED <<phase, xml_output>>
    /\ UNCHANGED <<classifierVars, validatorVars, dispatchVars, appVars>>
    /\ UNCHANGED buildVars

NextTypeCue == ProcessTcItem

SpecTypeCue == Init /\ [][NextTypeCue]_vars

\* C26: the type of a question is the type inferred from the concatenated
\* text of all the units appended to it, so a cue in a later unit decides
\* the type as it would in the start unit.
C26_TypeInferredFromFullText ==
    grouper.current_question # NoQuestion =>
        grouper.current_question.type =
            get_question_type(Flatten(grouper.current_question.text))

\* the questions the grouper holds: the stored ones and the open one
HeldQuestions(g) ==
    StoredQuestions(g) + (IF g.current_question # NoQuestion THEN 1 ELSE 0)

\* C27: while case-study start and end markers alternate, every
\* question-start marker yields exactly one question of the output: each
\* step that handles a question start adds one question to those the grouper
\* holds (open, standalone or nested in one case study), and no other step
\* adds or removes one.
C27_EveryQuestionStartYieldsOneQuestion ==
    [][(/\ phase = "grouping"
        /\ pos' = pos + 1
        /\ handled' = "case_study_start" =>
               grouper.state.current_case_study = NoCaseStudy
        /\ handled' = "case_study_end" =>
               grouper.state.current_case_study # NoCaseStudy) =>
          HeldQuestions(grouper') =
              HeldQuestions(grouper)
              + (IF handled' = "question_start" THEN 1 ELSE 0)
      ]_vars

\* C28: a case-study start that is processed while a case study is open
\* replaces the open case study by a fresh one without questions, segments
\* or images, seeded from the recorded topic; the pending segment name and
\* entries, the open question and both collections are left as they were.
\* The only case study ever appended to the collection is the one open at
\* that step, and a case study that is opened is a new one, so the replaced
\* case study never appears in the collection.
C28_SecondStartReplacesOpenCaseStudy ==
    [][(phase = "grouping" /\ pos' = pos + 1) =>
          LET s == grouper.state
              t == grouper'.state
          IN /\ (handled' = "case_study_start" /\ s.current_case_study # NoCaseStudy) =>
                   /\ t.current_case_study =
                          [id |-> pos', topic_number |-> s.topic_number,
                           number |-> s.case_study_number,
                           topic_name |-> s.topic_name, segments |-> <<>>,
                           questions |-> <<>>, images |-> <<>>]
                   /\ t.current_segment_name = s.current_segment_name
                   /\ t.current_segment_contents = s.current_segment_contents
                   /\ grouper'.current_question = grouper.current_question
                   /\ grouper'.case_studies = grouper.case_studies
                   /\ grouper'.standalone_questions = grouper.standalone_questions
             /\ t.current_case_study.id \in {s.current_case_study.id, 0, pos'}
             /\ \/ grouper'.case_studies = grouper.case_studies
                \/ /\ s.current_case_study # NoCaseStudy
                   /\ Len(grouper'.case_studies) = Len(grouper.case_studies) + 1
                   /\ SubSeq(grouper'.case_studies, 1, Len(grouper.case_studies)) =
                          grouper.case_studies
                   /\ Last(grouper'.case_studies).id = s.current_case_study.id
      ]_vars

\* the fourth unit, a second start, has replaced a case study in whose
\* details a segment was pending, and the fifth unit has closed the new case
\* study: the collection holds the new one alone, with the carried segment
C28_Witness ==
    /\ phase = "grouping"
    /\ handled = "case_study_end"
    /\ pos = 5
    /\ Len(grouper.case_studies) = 1
    /\ grouper.case_studies[1].id = 4
    /\ grouper.case_studies[1].segments # <<>>
    /\ grouper.case_studies[1].segments[1].name = <<Tok("Introduction")>>
    /\ grouper.case_studies[1].questions = <<>>

\* C29: the owner of a question is decided when it is finalized. A question
\* that was opened before the start of the case study that is open, and is
\* still open when a question start, a case-study end or the end of input is
\* processed, becomes a nested question of that case study, and the
\* standalone list is left as it was.
C29_OwnerDecidedAtFinalization ==
    [][(/\ phase = "grouping"
        /\ grouper.current_question # NoQuestion
        /\ grouper.state.current_case_study # NoCaseStudy
        /\ grouper.current_question.content_items[1].idx <
               grouper.state.current_case_study.id
        /\ \/ pos' = pos + 1 /\ handled' \in {"question_start", "case_study_end"}
           \/ phase' = "grouped") =>
          LET cs == grouper.state.current_case_study
              owner == IF handled' = "question_start"
                       THEN grouper'.state.current_case_study
                       ELSE Last(grouper'.case_studies)
          IN /\ owner.id = cs.id
             /\ owner.questions = Append(cs.questions, grouper.current_question)
             /\ grouper'.standalone_questions = grouper.standalone_questions
             /\ Len(grouper'.case_studies) =
                    Len(grouper.case_studies)
                    + (IF handled' = "question_start" THEN 0 ELSE 1)
      ]_vars

\* the input ended with a question open that had been opened before the
\* start of the open case study: it is nested in that case study and the
\* standalone list is empty
C29_Witness ==
    /\ phase = "grouped"
    /\ handled = "finalize"
    /\ grouper.case_studies # <<>>
    /\ Last(grouper.case_studies).questions # <<>>
    /\ Last(grouper.case_studies).questions[1].content_items[1].idx <
           Last(grouper.case_studies).id
    /\ Last(grouper.case_studies).questions[1] = grouper.current_question
    /\ grouper.standalone_questions = <<>>

(***************************************************************************)
(* The unnumbered run: documents with question starts that have no digits  *)
(* after the marker are grouped, finalized and handed to the assembler.    *)
(***************************************************************************)
UnUnits ==
    {[content |-> c, images |-> <<>>] :
        c \in {<<Tok("QUESTION NO:"), Tok("w")>>,
               <<TokA("QUESTION NO:", <<1>>), Tok("w")>>,
               <<TokA("QUESTION NO:", <<2>>), Tok("w")>>,
               <<Tok("CaseStudyStart:")>>,
               <<Tok("CaseStudyEnd:")>>,
               <<Tok("w")>>}}

\* one iteration of the loop of process_content_items
ProcessUnItem ==
    /\ phase = "grouping"
    /\ pos < MaxUnItems
    /\ \E u \in UnUnits :
          LET it == ContentItem(u.content, u.images, pos + 1)
              r == _process_single_item(grouper, it)
          IN /\ item' = it
             /\ grouper' = r.g
             /\ handled' = r.h
    /\ pos' = pos + 1
    /\ UNCHANGED <<phase, xml_output>>
    /\ UNCHANGED <<classifierVars, validatorVars, dispatchVars, appVars>>
    /\ UNCHANGED buildVars

NextUnnumbered == ProcessUnItem \/ FinalizeProcessing \/ GenerateXmlOutput

SpecUnnumbered == Init /\ [][NextUnnumbered]_vars

\* the questions of the returned collections, standalone and nested
RECURSIVE NestedQuestions(_)
NestedQuestions(css) ==
    IF css = <<>> THEN <<>> ELSE Head(css).questions \o NestedQuestions(Tail(css))

ReturnedQuestions(g) == g.standalone_questions \o NestedQuestions(g.case_studies)

\* no question-start marker of the unit is followed by digits
NoDigitsAfterMarker(it) ==
    \A i \in 1..Len(it.content) :
        Upper(it.content[i].m) = "QUESTION NO:" => it.content[i].arg = <<>>

\* C30: a question whose start marker is not followed by digits has no
\* number, and a document that holds such a question is not produced: the
\* assembler raises, whichever question builds raised and were replaced by
\* their fallback, and no testlet is output.
C30_UnnumberedQuestionRaisesAtSort ==
    LET qs == ReturnedQuestions(grouper)
    IN /\ \A k \in 1..Len(qs) :
             qs[k].number = NoNumber <=> NoDigitsAfterMarker(qs[k].content_items[1])
       /\ grouper.current_question # NoQuestion =>
             (grouper.current_question.number = NoNumber <=>
                  NoDigitsAfterMarker(grouper.current_question.content_items[1]))
       /\ (phase = "generated" /\ \E k \in 1..Len(qs) : qs[k].number = NoNumber) =>
             xml_output = [raised |-> TRUE, testlets |-> <<>>]

\* a document with two numbered questions and one without number was handed
\* to the assembler, which raised
C30_Witness ==
    /\ phase = "generated"
    /\ xml_output.raised
    /\ Len(grouper.standalone_questions) = 3
    /\ grouper.standalone_questions[1].number = <<2>>
    /\ grouper.standalone_questions[2].number = <<1>>
    /\ grouper.standalone_questions[3].number = NoNumber
    /\ grouper.case_studies = <<>>

====
